---- MODULE Spec2Model ----
(***************************************************************************)
(* sprite-kit: persistent CI steps on top of the Sprites API.              *)
(*                                                                         *)
(* The state machines modelled:                                            *)
(*   SpecRun    - the run action (src/src/run/index.ts) invoked repeatedly *)
(*                against one sprite and its checkpoint list;              *)
(*   SpecClient - one operation of SpritesClient (src/src/common/client.ts)*)
(*                with the retry loop of request(), createOrGetSprite and  *)
(*                the single-shot streaming calls;                         *)
(*   SpecRace   - two invocations of createOrGetSprite with one name       *)
(*                against a server that keeps names unique;                *)
(*   SpecStream - the NDJSON response stream of createCheckpoint,          *)
(*                restoreCheckpoint and exec, line by line;                *)
(*   SpecChunks - the same streams when the transport may divide a line   *)
(*                between two chunks;                                      *)
(*   SpecIdentity - deriveSpriteNameFromContext and deriveJobKey           *)
(*                (src/src/common/identity.ts) applied to a context and to *)
(*                a second context made from it;                           *)
(*   SpecCheckpoint - formatCheckpointComment, parseCheckpointComment,     *)
(*                findCheckpointForStep and findLastCheckpointForJob       *)
(*                applied to comments and checkpoint lists;                *)
(*   SpecActions - the init, run and cleanup actions, one invocation at a  *)
(*                time (src/src/init, src/src/run, src/src/cleanup);       *)
(*   SpecRetry  - one call of withApiRetry                                 *)
(*                (src/src/common/withApiRetry.ts).                        *)
(* Text is modelled as sequences of one-character strings so that the      *)
(* comment grammar is computed character by character.                     *)
(***************************************************************************)
EXTENDS Naturals, Integers, Sequences, FiniteSets, TLC

VARIABLES
    \* ---- the sprite, as the server holds it, and the job's saved state
    checkpoints,    \* the sprite's checkpoint list, in API order
    state,          \* values saved with core.saveState (run-id, job-key, ...)
    runs,           \* number of invocations of the run action so far
    \* ---- one invocation of the run action
    pc,             \* position inside run()
    inputs,         \* the RunInputs in use
    listed,         \* what shouldSkipStep got from listCheckpoints
    restored, skipped, checkpointId, exitCode,   \* run()'s locals
    outputs,        \* core.setOutput values
    failed,         \* core.setFailed was called
    failure,        \* the message core.setFailed was called with
    given,          \* the inputs and environment the invocation started with
    constructed,    \* a SpritesClient was constructed by this invocation
    warned,         \* core.warning calls of this invocation
    calls,          \* client calls made by this invocation
    \* ---- one operation of SpritesClient
    op,             \* the operation in progress
    cpc,            \* position inside the operation
    opts,           \* options of the logical request() in progress
    retries,        \* request()'s retries parameter
    attempts,       \* doRequest / http.request calls of the logical request
    warnings,       \* core.warning calls (the delays announced)
    sleeps,         \* delays slept, in order
    response,       \* what the transport delivered for the latest attempt
    err,            \* the error request() threw
    value,          \* the value request() returned
    got,            \* what createOrGetSprite's getSprite settled with
    result,         \* what the operation settled with
    sprite,         \* whether the server holds a sprite of the requested name
    gets, posts,    \* GET /sprites/{name} and POST /sprites requests issued
    \* ---- two invocations of createOrGetSprite with the same name
    inv,            \* each invocation's position, response and outcome
    sprites,        \* number of sprites of that name the server holds
    \* ---- the response stream of one streaming call (status < 400)
    sop,            \* createCheckpoint, restoreCheckpoint or exec
    spc,            \* "streaming", "ended" (res 'end'), "closed" (error, timeout)
    seen,           \* the lines the 'data' handler has processed, in order
    sent,           \* the NDJSON lines the server has sent, in order
    promise,        \* the call's promise: the first resolve or reject wins
    streamId,       \* createCheckpoint's local checkpointId
    stdout, stderr, \* execWithStreaming's locals
    streamExit,     \* execWithStreaming's local exitCode
    sink,           \* what was written to the log: core.info, process.stdout/stderr
    \* ---- identity derivation
    ctx,            \* a GitHubContext
    other,          \* a second GitHubContext, made from the first
    how,            \* how the second differs: "same", "rerun", "permuted", "values"
    derived,        \* the names and job keys derived from the two contexts
    \* ---- checkpoint comments and checkpoint lists (identity.ts)
    fields,         \* a (runId, jobKey, stepKey) to format a comment from
    cmt,            \* a checkpoint's comment (comment?: string)
    meta,           \* the outcome of parseCheckpointComment(cmt)
    cpList,         \* a checkpoint list as listCheckpoints returns it
    query,          \* the (runId, jobKey, stepKey) looked for in cpList
    answer,         \* what findCheckpointForStep / findLastCheckpointForJob returned
    \* ---- one invocation of the init action or of the cleanup action
    action,         \* "none", "init" or "cleanup"
    step,           \* position inside its run()
    actionInputs,   \* what its getInputs() returned
    locals,         \* run()'s locals (init: spriteName, jobKey, runId, sprite)
    hasClient,      \* a SpritesClient was constructed
    requests,       \* the client methods called, in order
    emitted,        \* core.setOutput and core.saveState values
    setFailed,      \* the core.setFailed call, if any
    actionWarnings, \* core.warning calls
    fleet,          \* the sprites the server holds
    \* ---- one call of withApiRetry (src/src/common/withApiRetry.ts)
    retryPc,        \* position inside withApiRetry
    retryArgs,      \* its parameters retries and delayMs
    retryAttempt,   \* its local attempt
    fnResults,      \* how the invocations of fn settled, in order
    retryWarnings,  \* number of core.warning calls
    retrySleeps,    \* the setTimeout delays awaited, in order
    retryOutcome    \* what withApiRetry returned or threw

runVars == <<checkpoints, state, runs, pc, inputs, listed, restored, skipped,
             checkpointId, exitCode, outputs, failed, failure, given, constructed,
             warned, calls>>
clientVars == <<op, cpc, opts, retries, attempts, warnings, sleeps, response,
                err, value, got, result, sprite, gets, posts>>
raceVars == <<inv, sprites>>
streamVars == <<sop, spc, seen, sent, promise, streamId, stdout, stderr, streamExit, sink>>
identityVars == <<ctx, other, how, derived>>
checkpointVars == <<fields, cmt, meta, cpList, query, answer>>
actionVars == <<action, step, actionInputs, locals, hasClient, requests, emitted,
                setFailed, actionWarnings, fleet>>
retryVars == <<retryPc, retryArgs, retryAttempt, fnResults, retryWarnings,
               retrySleeps, retryOutcome>>
vars == <<runVars, clientVars, raceVars, streamVars, identityVars, checkpointVars,
          actionVars, retryVars>>

\* what each state machine leaves alone
exceptRun == <<clientVars, raceVars, streamVars, identityVars, checkpointVars,
    actionVars, retryVars>>
exceptAction == <<runVars, clientVars, raceVars, streamVars, identityVars,
    checkpointVars, retryVars>>
exceptClient == <<runVars, raceVars, streamVars, identityVars, checkpointVars,
    actionVars, retryVars>>
exceptRace == <<runVars, clientVars, streamVars, identityVars, checkpointVars,
    actionVars, retryVars>>
exceptStream == <<runVars, clientVars, raceVars, identityVars, checkpointVars,
    actionVars, retryVars>>
exceptCheckpoint == <<runVars, clientVars, raceVars, streamVars, identityVars,
    actionVars, retryVars>>
exceptIdentity == <<runVars, clientVars, raceVars, streamVars, checkpointVars,
    actionVars, retryVars>>
exceptRetry == <<runVars, clientVars, raceVars, streamVars, identityVars,
    checkpointVars, actionVars>>

----------------------------------------------------------------------------
(* Text *)

Empty == <<>>
Semi == ";"
Eq == "="

ghrunEq == <<"g", "h", "r", "u", "n", "=">>
jobEq == <<"j", "o", "b", "=">>
stepEq == <<"s", "t", "e", "p", "=">>

Min(S) == CHOOSE x \in S : \A y \in S : x <= y

\* JavaScript truthiness of a string held as characters
Truthy(s) == s # Empty

\* JavaScript truthiness of an identifier or token
TruthyId(s) == s # ""

\* a || b
OrElse(a, b) == IF Truthy(a) THEN a ELSE b
OrElseId(a, b) == IF TruthyId(a) THEN a ELSE b

BoolStr(b) == IF b THEN "true" ELSE "false"
NumStr(n) == ToString(n)

Chars(s) == {s[i] : i \in DOMAIN s}

\* an optional string (comment?: string)
Undefined == [has |-> FALSE, text |-> Empty]
Some(s) == [has |-> TRUE, text |-> s]

----------------------------------------------------------------------------
(* identity.ts *)

FormatCheckpointCommentNoSep(runId, jobKey, stepKey) ==
    ghrunEq \o runId \o jobEq \o jobKey \o stepEq \o stepKey

formatCheckpointComment(runId, jobKey, stepKey) ==
    ghrunEq \o runId \o <<Semi>> \o jobEq \o jobKey \o <<Semi>> \o stepEq \o stepKey

\* comment.match(/<key>([^;]+)/): the leftmost place where key is followed by
\* at least one character other than ';', and the longest such run
MatchStarts(key, s) ==
    {i \in 1..Len(s) : /\ i + Len(key) <= Len(s)
                       /\ SubSeq(s, i, i + Len(key) - 1) = key
                       /\ s[i + Len(key)] # Semi}

MatchKeyToEnd(key, s) ==
    IF MatchStarts(key, s) = {} THEN [matched |-> FALSE, group |-> Empty]
    ELSE [matched |-> TRUE,
          group |-> SubSeq(s, Min(MatchStarts(key, s)) + Len(key), Len(s))]

MatchKey(key, s) ==
    IF MatchStarts(key, s) = {} THEN [matched |-> FALSE, group |-> Empty]
    ELSE LET from == Min(MatchStarts(key, s)) + Len(key)
             stops == {k \in from..Len(s) : s[k] = Semi}
             to == IF stops = {} THEN Len(s) ELSE Min(stops) - 1
         IN [matched |-> TRUE, group |-> SubSeq(s, from, to)]

Null == [ok |-> FALSE, runId |-> Empty, jobKey |-> Empty, stepKey |-> Empty]

parseCheckpointComment(comment) ==
    IF ~comment.has \/ comment.text = Empty THEN Null
    ELSE LET runIdMatch == MatchKey(ghrunEq, comment.text)
             jobKeyMatch == MatchKey(jobEq, comment.text)
             stepKeyMatch == MatchKey(stepEq, comment.text)
         IN IF ~runIdMatch.matched \/ ~jobKeyMatch.matched \/ ~stepKeyMatch.matched
            THEN Null
            ELSE [ok |-> TRUE, runId |-> runIdMatch.group,
                  jobKey |-> jobKeyMatch.group, stepKey |-> stepKeyMatch.group]

MetadataMatches(cp, runId, jobKey, stepKey) ==
    LET metadata == parseCheckpointComment(cp.comment)
    IN metadata.ok /\ metadata.runId = runId /\ metadata.jobKey = jobKey
       /\ metadata.stepKey = stepKey

NotFound == [found |-> FALSE, id |-> ""]

FindIgnoringRunId(cps, runId, jobKey, stepKey) ==
    LET hits == {i \in DOMAIN cps :
                    LET m == parseCheckpointComment(cps[i].comment)
                    IN m.ok /\ m.jobKey = jobKey /\ m.stepKey = stepKey}
    IN IF hits = {} THEN NotFound ELSE [found |-> TRUE, id |-> cps[Min(hits)].id]

FindLastMatchForStep(cps, runId, jobKey, stepKey) ==
    LET hits == {i \in DOMAIN cps : MetadataMatches(cps[i], runId, jobKey, stepKey)}
    IN IF hits = {} THEN NotFound
       ELSE [found |-> TRUE, id |-> cps[CHOOSE i \in hits : \A j \in hits : j <= i].id]

findCheckpointForStep(cps, runId, jobKey, stepKey) ==
    LET hits == {i \in DOMAIN cps : MetadataMatches(cps[i], runId, jobKey, stepKey)}
    IN IF hits = {} THEN NotFound ELSE [found |-> TRUE, id |-> cps[Min(hits)].id]

----------------------------------------------------------------------------
(* SpritesClient: src/src/common/client.ts *)

MAX_RETRIES == 3
RETRY_DELAY_MS == 1000
TRANSIENT_ERROR_CODES == {408, 429, 500, 502, 503, 504}
NETWORK_ERROR_CODES == {"ECONNRESET", "ETIMEDOUT", "TIMEOUT", "ENOTFOUND"}

\* what the transport can deliver for one http.request
Statuses == {200, 201, 204, 400, 401, 403, 404, 408, 429, 500, 502, 503, 504}
Bodies == {"", "json", "text"}
ErrnoCodes == {"ECONNRESET", "ETIMEDOUT", "ENOTFOUND", "ECONNREFUSED", "EAI_AGAIN"}

NoOptions == [method |-> "", path |-> "", body |-> "", skipRetryOn404 |-> FALSE]
NoResponse == [kind |-> "none", status |-> 0, body |-> "", code |-> ""]
NoReq == [method |-> "", path |-> ""]
NoError == [message |-> "", status |-> 0, code |-> "", req |-> NoReq]
NoValue == [kind |-> "none", body |-> ""]
Pending == [kind |-> "pending", value |-> NoValue, error |-> NoError]
Resolved(v) == [kind |-> "resolved", value |-> v, error |-> NoError]
Rejected(e) == [kind |-> "rejected", value |-> NoValue, error |-> e]

\* the response ended with a status and a body
Http(status, body) == [kind |-> "http", status |-> status, body |-> body, code |-> ""]
\* req.on('error')
ReqError(code) == [kind |-> "reqError", status |-> 0, body |-> "", code |-> code]
\* req.on('timeout')
Timeout == [kind |-> "timeout", status |-> 0, body |-> "", code |-> ""]
\* res.on('error')
ResError(code) == [kind |-> "resError", status |-> 0, body |-> "", code |-> code]

Responses ==
    {Http(st, b) : st \in Statuses, b \in Bodies}
        \cup {ReqError(c) : c \in ErrnoCodes}
        \cup {Timeout}
        \cup {ResError(c) : c \in {"ECONNRESET", "EPIPE"}}

Operations ==
    {"getSprite", "deleteSprite", "listSprites", "listCheckpoints", "getCheckpoint",
     "createOrGetSprite", "createCheckpoint", "restoreCheckpoint", "exec"}
StreamingOperations == {"createCheckpoint", "restoreCheckpoint", "exec"}

SpritePath == "/sprites/{name}"

\* the options of the first request an operation issues
OptionsOf(o) ==
    CASE o \in {"getSprite", "createOrGetSprite"} ->
            [method |-> "GET", path |-> SpritePath, body |-> "",
             skipRetryOn404 |-> TRUE]
      [] o = "deleteSprite" ->
            [method |-> "DELETE", path |-> SpritePath, body |-> "",
             skipRetryOn404 |-> FALSE]
      [] o = "listSprites" ->
            [method |-> "GET", path |-> "/sprites", body |-> "",
             skipRetryOn404 |-> FALSE]
      [] o = "listCheckpoints" ->
            [method |-> "GET", path |-> "/sprites/{name}/checkpoints", body |-> "",
             skipRetryOn404 |-> FALSE]
      [] o = "getCheckpoint" ->
            [method |-> "GET", path |-> "/sprites/{name}/checkpoints/{id}",
             body |-> "", skipRetryOn404 |-> TRUE]
      [] o = "createCheckpoint" ->
            [method |-> "POST", path |-> "/sprites/{name}/checkpoint",
             body |-> "{comment}", skipRetryOn404 |-> FALSE]
      [] o = "restoreCheckpoint" ->
            [method |-> "POST", path |-> "/sprites/{name}/checkpoints/{id}/restore",
             body |-> "", skipRetryOn404 |-> FALSE]
      [] o = "exec" ->
            [method |-> "POST", path |-> "/sprites/{name}/exec",
             body |-> "{command, workdir, env}", skipRetryOn404 |-> FALSE]

CreateOptions ==
    [method |-> "POST", path |-> "/sprites", body |-> "{name}", skipRetryOn404 |-> FALSE]

DefaultMessage(status) == "Request failed with status " \o ToString(status)

\* the message doRequest builds from an error response
ErrorMessage(resp) ==
    CASE resp.body = "json" -> "message of the body"
      [] resp.body = "text" -> "text of the body"
      [] OTHER -> DefaultMessage(resp.status)

\* JSON.parse(data), the text itself when it is no JSON, undefined when empty
ParseBody(body) ==
    CASE body = "" -> [kind |-> "undefined", body |-> ""]
      [] body = "json" -> [kind |-> "object", body |-> body]
      [] OTHER -> [kind |-> "string", body |-> body]

ReqOf(options) == [method |-> options.method, path |-> options.path]

DoRequestDropsBody(options, resp) ==
    CASE resp.kind = "http" /\ resp.status >= 400 ->
            Rejected([message |-> ErrorMessage(resp), status |-> resp.status,
                      code |-> "", req |-> ReqOf(options)])
      [] resp.kind = "http" -> Resolved([kind |-> "undefined", body |-> ""])
      [] resp.kind = "reqError" ->
            Rejected([message |-> resp.code, status |-> 0, code |-> resp.code,
                      req |-> ReqOf(options)])
      [] resp.kind = "timeout" ->
            Rejected([message |-> "Request timeout", status |-> 0, code |-> "TIMEOUT",
                      req |-> ReqOf(options)])
      [] OTHER ->
            Rejected([message |-> resp.code, status |-> 0, code |-> resp.code,
                      req |-> NoReq])

\* what the promise of doRequest settles with
doRequest(options, resp) ==
    CASE resp.kind = "http" /\ resp.status >= 400 ->
            Rejected([message |-> ErrorMessage(resp), status |-> resp.status,
                      code |-> "", req |-> ReqOf(options)])
      [] resp.kind = "http" -> Resolved(ParseBody(resp.body))
      [] resp.kind = "reqError" ->
            Rejected([message |-> resp.code, status |-> 0, code |-> resp.code,
                      req |-> ReqOf(options)])
      [] resp.kind = "timeout" ->
            Rejected([message |-> "Request timeout", status |-> 0, code |-> "TIMEOUT",
                      req |-> ReqOf(options)])
      [] OTHER ->
            \* res.on('error', reject): the stream's own Error, as it is
            Rejected([message |-> resp.code, status |-> 0, code |-> resp.code,
                      req |-> NoReq])

isTransientError(apiError) == apiError.status \in TRANSIENT_ERROR_CODES
isNetworkError(apiError) == apiError.code \in NETWORK_ERROR_CODES

ShouldRetryOneMore(options, apiError, n) ==
    /\ ~(options.skipRetryOn404 /\ apiError.status = 404)
    /\ n <= MAX_RETRIES
    /\ (isTransientError(apiError) \/ isNetworkError(apiError))

ShouldRetryAnyHttpError(options, apiError, n) ==
    /\ n < MAX_RETRIES
    /\ (apiError.status >= 400 \/ isNetworkError(apiError))

ShouldRetryOnly5xx(options, apiError, n) ==
    /\ ~(options.skipRetryOn404 /\ apiError.status = 404)
    /\ n < MAX_RETRIES
    /\ (apiError.status >= 500 \/ isNetworkError(apiError))

\* the catch block of request() goes on to sleep and retry
ShouldRetry(options, apiError, n) ==
    /\ ~(options.skipRetryOn404 /\ apiError.status = 404)
    /\ n < MAX_RETRIES
    /\ (isTransientError(apiError) \/ isNetworkError(apiError))

\* RETRY_DELAY_MS * Math.pow(2, retries)
DelayLinear(n) == RETRY_DELAY_MS * (n + 1)

Delay(n) == RETRY_DELAY_MS * (2 ^ n)

\* the invocations of createOrGetSprite that share one name
Invocations == {1, 2}
IdleInvocation == [pc |-> "idle", calls |-> 0, response |-> NoResponse,
                   got |-> Pending, result |-> Pending]
RaceIdle == inv = [i \in Invocations |-> IdleInvocation] /\ sprites = 0

\* no identity derived
NoContext == [owner |-> <<>>, repo |-> <<>>, workflow |-> <<>>, runId |-> <<>>,
              job |-> <<>>, matrix |-> [has |-> FALSE, props |-> <<>>],
              runAttempt |-> 0]
NotDerived == [done |-> FALSE, name |-> <<>>, jobKey |-> <<>>, otherName |-> <<>>,
               otherJobKey |-> <<>>]
IdentityIdle ==
    ctx = NoContext /\ other = NoContext /\ how = "none" /\ derived = NotDerived

\* neither the init action nor the cleanup action is running
NoActionInputs == [token |-> "", envToken |-> ""]
NoLocals == [set |-> FALSE]
NoEmitted == [set |-> FALSE]
NotFailed == [called |-> FALSE, message |-> ""]
ActionIdle ==
    /\ action = "none" /\ step = "idle" /\ actionInputs = NoActionInputs
    /\ locals = NoLocals /\ hasClient = FALSE /\ requests = <<>>
    /\ emitted = NoEmitted /\ setFailed = NotFailed /\ actionWarnings = 0

\* nothing formatted, parsed or looked up
NoFields == [given |-> FALSE, runId |-> <<>>, jobKey |-> <<>>, stepKey |-> <<>>]
NotParsed == [called |-> FALSE, threw |-> FALSE, value |-> Null]
NoAnswer == [op |-> "none", result |-> NotFound]
CheckpointIdle ==
    /\ fields = NoFields /\ cmt = Undefined /\ meta = NotParsed
    /\ cpList = <<>> /\ query = NoFields /\ answer = NoAnswer

\* the promise of a streaming call; texts are sequences of tokens, a token
\* being a run of non-space characters or one space character
NoStreamValue == [id |-> "", comment |-> FALSE, exitCode |-> 0, stdout |-> <<>>, stderr |-> <<>>]
NoStreamError == [message |-> <<>>, code |-> "", req |-> NoReq]
Unsettled == [kind |-> "pending", value |-> NoStreamValue, error |-> NoStreamError]
Fulfilled(v) == [kind |-> "resolved", value |-> v, error |-> NoStreamError]
Failed(e) == [kind |-> "rejected", value |-> NoStreamValue, error |-> e]

\* no call of withApiRetry in progress
NoRetryArgs == [retries |-> 0, delayMs |-> 0]
NoRetryOutcome == [kind |-> "none"]
RetryIdle ==
    /\ retryPc = "idle" /\ retryArgs = NoRetryArgs /\ retryAttempt = 0
    /\ fnResults = <<>> /\ retryWarnings = 0 /\ retrySleeps = <<>>
    /\ retryOutcome = NoRetryOutcome

\* no streaming call in progress
StreamIdle ==
    /\ sop = "none" /\ spc = "idle" /\ seen = <<>> /\ sent = <<>> /\ promise = Unsettled
    /\ streamId = "" /\ stdout = <<>> /\ stderr = <<>> /\ streamExit = 0
    /\ sink = <<>>

ClientIdle ==
    /\ op = "none" /\ cpc = "idle" /\ opts = NoOptions
    /\ retries = 0 /\ attempts = 0 /\ warnings = <<>> /\ sleeps = <<>>
    /\ response = NoResponse /\ err = NoError /\ value = NoValue
    /\ got = Pending /\ result = Pending
    /\ gets = 0 /\ posts = 0

----------------------------------------------------------------------------
(* The run action: src/src/run/index.ts, lines 1-214 *)

MaxRuns == 3

StepKeys == {<<"a">>, <<"b">>, <<"a", Semi, "b">>, Empty}
StateRunIds == {<<"1">>, Empty}
StateJobKeys == {<<"c", "i">>, <<"s", "t", "e", "p", Eq, "b">>, Empty}
StateSpriteIds == {"gh-sprite", ""}
Commands == {"npm ci", ""}
Tokens == {"tok", ""}
EnvTokens == {"env-tok", ""}
ExitCodes == {0, 1}

IdOf(n) == "v" \o ToString(n)

\* by: the (runId, jobKey, stepKey) of the run action that created the
\* checkpoint after a successful step; Foreign for any other checkpoint
Foreign == [run |-> FALSE, runId |-> Empty, jobKey |-> Empty, stepKey |-> Empty]
ByRun(i) == [run |-> TRUE, runId |-> i.runId, jobKey |-> i.jobKey, stepKey |-> i.stepKey]
Cp(id, comment, by) == [id |-> id, comment |-> comment, by |-> by]

\* checkpoint lists the sprite may hold before the job's first step
InitialLists ==
    { <<>>,
      << Cp(IdOf(1), Undefined, Foreign),
         Cp(IdOf(2), Some(formatCheckpointComment(<<"2">>, <<"c", "i">>, <<"a">>)), Foreign),
         Cp(IdOf(3), Some(<<"m", "a", "n", "u", "a", "l">>), Foreign) >>,
      << Cp(IdOf(1), Some(formatCheckpointComment(<<"1">>, <<"c", "i">>, <<"b">>)), Foreign),
         Cp(IdOf(2), Some(formatCheckpointComment(<<"1">>, <<"c", "i">>, <<"b">>)), Foreign) >> }

NoCalls == [list |-> 0, listOk |-> FALSE, get |-> 0, getOutcome |-> "none",
            restore |-> 0, restoreOutcome |-> "none", exec |-> 0,
            execOutcome |-> "none", create |-> 0]
NoInputs == [stepKey |-> Empty, run |-> "", token |-> "", spriteName |-> "", jobKey |-> Empty,
             runId |-> Empty, lastCheckpointId |-> ""]
NoOutputs == [set |-> FALSE, skipped |-> "", checkpointId |-> "", restored |-> "",
              exitCode |-> ""]

Outputs(sk, id, rs, ec) ==
    [set |-> TRUE, skipped |-> sk, checkpointId |-> id, restored |-> rs, exitCode |-> ec]

\* the inputs and environment before an invocation
NoStepInputs == [stepKey |-> Empty, run |-> "", token |-> "", envToken |-> "", spriteId |-> "",
                 jobKey |-> Empty, runId |-> Empty, lastCheckpointId |-> ""]

\* the messages of the errors the actions throw
TokenRequired ==
    "Sprites token is required. Set SPRITES_TOKEN environment variable or provide token input."
SpriteIdRequired == "Sprite ID is required. Run init action first or provide sprite-id input."
JobKeyRequired == "Job key is required. Run init action first or provide job-key input."
RunIdRequired == "Run ID is required. Run init action first or provide run-id input."
InputRequired(name) == "Input required and not supplied: " \o name
ExitedMessage(code) == "Command exited with code " \o ToString(code)
\* the message of an ApiError the client rejected with
ApiErrorMessage == "message of the ApiError"
UnknownError == "An unknown error occurred"

\* core.getInput(name, { required: true }) throws on an empty value
RequiredInputsGiven(in) == Truthy(in.stepKey) /\ TruthyId(in.run)

getInputs(in) ==
    [stepKey |-> in.stepKey,
     run |-> in.run,
     token |-> OrElseId(in.token, in.envToken),
     spriteName |-> OrElseId(in.spriteId, state.spriteId),
     jobKey |-> OrElse(in.jobKey, state.jobKey),
     runId |-> OrElse(in.runId, state.runId),
     lastCheckpointId |-> OrElseId(in.lastCheckpointId, state.lastCheckpointId)]

\* the message of the error getInputs or validateInputs throws
InputsMessage(in) ==
    CASE ~Truthy(in.stepKey) -> InputRequired("step-key")
      [] ~TruthyId(in.run) -> InputRequired("run")
      [] ~TruthyId(getInputs(in).token) -> TokenRequired
      [] ~TruthyId(getInputs(in).spriteName) -> SpriteIdRequired
      [] ~Truthy(getInputs(in).jobKey) -> JobKeyRequired
      [] OTHER -> RunIdRequired

ValidateInputsWithoutToken(i) ==
    TruthyId(i.spriteName) /\ Truthy(i.jobKey) /\ Truthy(i.runId)

\* validateInputs does not throw
validateInputs(i) ==
    TruthyId(i.token) /\ TruthyId(i.spriteName) /\ Truthy(i.jobKey) /\ Truthy(i.runId)

RunIdle ==
    /\ pc = "idle" /\ inputs = NoInputs /\ listed = <<>>
    /\ restored = FALSE /\ skipped = FALSE /\ checkpointId = "" /\ exitCode = 0
    /\ outputs = NoOutputs /\ failed = FALSE /\ warned = 0 /\ calls = NoCalls
    /\ failure = "" /\ given = NoStepInputs /\ constructed = FALSE

InitRun ==
    /\ checkpoints \in InitialLists
    /\ state \in [spriteId : StateSpriteIds, jobKey : StateJobKeys,
                  runId : StateRunIds, lastCheckpointId : {""}]
    /\ runs = 0
    /\ RunIdle
    /\ ClientIdle /\ sprite = FALSE
    /\ RaceIdle
    /\ StreamIdle
    /\ IdentityIdle
    /\ CheckpointIdle
    /\ ActionIdle /\ fleet = {}
    /\ RetryIdle

\* a catch block that only calls setFailed
CatchSetFailedOnly(sk, id, rs, ec, message) ==
    /\ UNCHANGED outputs
    /\ failed' = TRUE
    /\ failure' = message
    /\ pc' = "done"

\* the catch block of run(): outputs from the locals, then setFailed
Catch(sk, id, rs, ec, message) ==
    /\ outputs' = Outputs(BoolStr(sk), id, BoolStr(rs), NumStr(ec))
    /\ failed' = TRUE
    /\ failure' = message
    /\ pc' = "done"

StepInputs ==
    [stepKey : StepKeys, run : Commands, token : Tokens, envToken : EnvTokens, spriteId : {""}, jobKey : {Empty},
     runId : {Empty}, lastCheckpointId : {"", IdOf(1), IdOf(99)}]

RunStart ==
    /\ pc = "idle" /\ runs < MaxRuns /\ action = "none"
    /\ \E in \in StepInputs :
        /\ inputs' = IF RequiredInputsGiven(in) THEN getInputs(in) ELSE NoInputs
        /\ given' = in
        /\ IF RequiredInputsGiven(in) /\ validateInputs(getInputs(in))
           THEN /\ constructed' = TRUE
                /\ pc' = "shouldSkipStep"
                /\ UNCHANGED <<outputs, failed, failure>>
           ELSE /\ Catch(skipped, checkpointId, restored, exitCode, InputsMessage(in))
                /\ UNCHANGED constructed
    /\ runs' = runs + 1
    /\ UNCHANGED <<checkpoints, state, listed, restored, skipped, checkpointId,
                   exitCode, warned, calls>>
    /\ UNCHANGED exceptRun

\* if (skip && existingCheckpointId)
SkipDecision(found) == found.found /\ TruthyId(found.id)

ShouldSkipStep ==
    /\ pc = "shouldSkipStep"
    /\ \E ok \in BOOLEAN :
        /\ calls' = [calls EXCEPT !.list = @ + 1, !.listOk = ok]
        /\ IF ~ok
           THEN /\ Catch(skipped, checkpointId, restored, exitCode, ApiErrorMessage)
                /\ UNCHANGED <<listed, skipped, checkpointId>>
           ELSE LET found == findCheckpointForStep(checkpoints, inputs.runId,
                                                   inputs.jobKey, inputs.stepKey)
                IN /\ listed' = checkpoints
                   /\ IF SkipDecision(found)
                      THEN /\ skipped' = TRUE
                           /\ checkpointId' = found.id
                           /\ outputs' = Outputs("true", found.id, "false", "0")
                           /\ pc' = "done"
                           /\ UNCHANGED <<failed, failure>>
                      ELSE /\ pc' = "maybeRestore"
                           /\ UNCHANGED <<skipped, checkpointId, outputs, failed, failure>>
    /\ UNCHANGED <<checkpoints, state, runs, inputs, restored, exitCode, warned>>
    /\ UNCHANGED <<given, constructed>>
    /\ UNCHANGED exceptRun

CheckpointById(id) ==
    LET hits == {i \in DOMAIN checkpoints : checkpoints[i].id = id}
    IN IF hits = {} THEN [found |-> FALSE] ELSE [found |-> TRUE, cp |-> checkpoints[Min(hits)]]

RestoreAllowedAnyJob(cp, runId, jobKey) ==
    LET metadata == parseCheckpointComment(cp.comment)
    IN metadata.ok /\ metadata.runId = runId

\* !( !metadata || metadata.runId !== runId || metadata.jobKey !== jobKey )
RestoreAllowed(cp, runId, jobKey) ==
    LET metadata == parseCheckpointComment(cp.comment)
    IN metadata.ok /\ metadata.runId = runId /\ metadata.jobKey = jobKey

\* maybeRestore up to and including its await of getCheckpoint
MaybeRestore ==
    /\ pc = "maybeRestore"
    /\ IF ~TruthyId(inputs.lastCheckpointId)
       THEN /\ restored' = FALSE
            /\ pc' = "exec"
            /\ UNCHANGED <<warned, calls>>
       ELSE /\ \E ok \in BOOLEAN :
                LET fetched == CheckpointById(inputs.lastCheckpointId)
                IN /\ calls' = [calls EXCEPT !.get = @ + 1,
                                             !.getOutcome = IF ok /\ fetched.found
                                                            THEN "ok" ELSE "rejected"]
                   /\ IF ok /\ fetched.found
                      THEN IF RestoreAllowed(fetched.cp, inputs.runId, inputs.jobKey)
                           THEN /\ pc' = "restoreCheckpoint"
                                /\ UNCHANGED <<restored, warned>>
                           ELSE /\ warned' = warned + 1
                                /\ restored' = FALSE
                                /\ pc' = "exec"
                      ELSE /\ warned' = warned + 1
                           /\ restored' = FALSE
                           /\ pc' = "exec"
    /\ UNCHANGED <<checkpoints, state, runs, inputs, listed, skipped, checkpointId,
                   exitCode, outputs, failed, failure>>
    /\ UNCHANGED <<given, constructed>>
    /\ UNCHANGED exceptRun

\* restoreCheckpoint awaited outside the try block of maybeRestore
RestoreCheckpointUncaught ==
    /\ pc = "restoreCheckpoint"
    /\ \E ok \in BOOLEAN :
        /\ calls' = [calls EXCEPT !.restore = @ + 1,
                                  !.restoreOutcome = IF ok THEN "ok" ELSE "rejected"]
        /\ IF ok
           THEN /\ restored' = TRUE /\ pc' = "exec"
                /\ UNCHANGED <<outputs, failed, failure>>
           ELSE /\ Catch(skipped, checkpointId, restored, exitCode, ApiErrorMessage)
                /\ UNCHANGED restored
    /\ UNCHANGED <<checkpoints, state, runs, inputs, listed, skipped, checkpointId,
                   exitCode, warned>>
    /\ UNCHANGED <<given, constructed>>
    /\ UNCHANGED exceptRun

\* maybeRestore from its await of restoreCheckpoint on
RestoreCheckpoint ==
    /\ pc = "restoreCheckpoint"
    /\ \E ok \in BOOLEAN :
        /\ calls' = [calls EXCEPT !.restore = @ + 1,
                                  !.restoreOutcome = IF ok THEN "ok" ELSE "rejected"]
        /\ IF ok THEN restored' = TRUE /\ UNCHANGED warned
           ELSE restored' = FALSE /\ warned' = warned + 1
    /\ pc' = "exec"
    /\ UNCHANGED <<checkpoints, state, runs, inputs, listed, skipped, checkpointId,
                   exitCode, outputs, failed, failure>>
    /\ UNCHANGED <<given, constructed>>
    /\ UNCHANGED exceptRun

ExecSucceededAlways(code) == TRUE

\* !(exitCode !== 0)
ExecSucceeded(code) == code = 0

Exec ==
    /\ pc = "exec"
    /\ \/ \E code \in ExitCodes :
            /\ calls' = [calls EXCEPT !.exec = @ + 1,
                                      !.execOutcome = IF code = 0 THEN "zero" ELSE "nonzero"]
            /\ exitCode' = code
            /\ IF ExecSucceeded(code)
               THEN pc' = "createCheckpoint" /\ UNCHANGED <<outputs, failed, failure>>
               ELSE Catch(skipped, checkpointId, restored, code, ExitedMessage(code))
       \/ /\ calls' = [calls EXCEPT !.exec = @ + 1, !.execOutcome = "rejected"]
          /\ Catch(skipped, checkpointId, restored, exitCode, ApiErrorMessage)
          /\ UNCHANGED exitCode
    /\ UNCHANGED <<checkpoints, state, runs, inputs, listed, restored, skipped,
                   checkpointId, warned>>
    /\ UNCHANGED <<given, constructed>>
    /\ UNCHANGED exceptRun

SaveStateSkipped(st, id) == st

\* core.saveState('last-checkpoint-id', checkpointId)
SaveState(st, id) == [st EXCEPT !.lastCheckpointId = id]

CreateCheckpoint ==
    /\ pc = "createCheckpoint"
    /\ calls' = [calls EXCEPT !.create = @ + 1]
    /\ \/ LET id == IdOf(Len(checkpoints) + 1)
              comment == formatCheckpointComment(inputs.runId, inputs.jobKey,
                                                 inputs.stepKey)
          IN /\ checkpoints' = Append(checkpoints, Cp(id, Some(comment), ByRun(inputs)))
             /\ checkpointId' = id
             /\ state' = SaveState(state, id)
             /\ outputs' = Outputs("false", id, BoolStr(restored), NumStr(exitCode))
             /\ pc' = "done"
             /\ UNCHANGED <<failed, failure>>
       \/ /\ Catch(skipped, checkpointId, restored, exitCode, ApiErrorMessage)
          /\ UNCHANGED <<checkpoints, checkpointId, state>>
    /\ UNCHANGED <<runs, inputs, listed, restored, skipped, exitCode, warned>>
    /\ UNCHANGED <<given, constructed>>
    /\ UNCHANGED exceptRun

\* the process of the step ends; the next step of the job starts afresh
RunReturn ==
    /\ pc = "done"
    /\ pc' = "idle" /\ inputs' = NoInputs /\ listed' = <<>>
    /\ restored' = FALSE /\ skipped' = FALSE /\ checkpointId' = "" /\ exitCode' = 0
    /\ outputs' = NoOutputs /\ failed' = FALSE /\ warned' = 0 /\ calls' = NoCalls
    /\ failure' = "" /\ given' = NoStepInputs /\ constructed' = FALSE
    /\ UNCHANGED <<checkpoints, state, runs>>
    /\ UNCHANGED exceptRun

NextRun ==
    \/ RunStart
    \/ ShouldSkipStep
    \/ MaybeRestore
    \/ RestoreCheckpoint
    \/ Exec
    \/ CreateCheckpoint
    \/ RunReturn

SpecRun == InitRun /\ [][NextRun]_vars

----------------------------------------------------------------------------
(* Claims about the run action *)

HasDelimiter(s) == Semi \in Chars(s) \/ Eq \in Chars(s)
PlainKey(s) == s # Empty /\ ~HasDelimiter(s)

\* listCheckpoints returned a checkpoint that an earlier invocation with the
\* same runId, jobKey and stepKey created after its step exited with 0
CompletedEarlier ==
    /\ calls.listOk
    /\ \E i \in DOMAIN listed : listed[i].by = ByRun(inputs)

IsSkipped ==
    /\ calls.exec = 0
    /\ pc = "done" /\ skipped /\ outputs.set /\ outputs.skipped = "true"

\* C1 as stated: for any runId, jobKey and stepKey that validateInputs accepts,
\* an invocation that finds the checkpoint of an earlier successful execution
\* of the same step in listCheckpoints is skipped and exec is not called.
C1_AnyAcceptedKeys ==
    (validateInputs(inputs) /\ CompletedEarlier) => IsSkipped

\* C1 amended: the same, for non-empty runId, jobKey and stepKey that contain
\* neither ';' nor '='.
C1_RerunSkipsPlainKeys ==
    (/\ validateInputs(inputs)
     /\ PlainKey(inputs.runId) /\ PlainKey(inputs.jobKey) /\ PlainKey(inputs.stepKey)
     /\ CompletedEarlier) => IsSkipped

C1_Witness ==
    /\ runs = 2 /\ CompletedEarlier /\ IsSkipped
    /\ PlainKey(inputs.runId) /\ PlainKey(inputs.jobKey) /\ PlainKey(inputs.stepKey)

\* C2: createCheckpoint is called only after exec resolved with exit code 0;
\* when exec resolves with another code or rejects, createCheckpoint is not
\* called, setFailed is called and the checkpoint-id output is empty.
C2_CheckpointOnlyAfterSuccess ==
    /\ calls.create > 0 => (calls.exec = 1 /\ calls.execOutcome = "zero")
    /\ calls.execOutcome \in {"nonzero", "rejected"} =>
          /\ calls.create = 0 /\ pc = "done"
          /\ failed /\ outputs.set /\ outputs.checkpointId = ""

C2_Witness ==
    /\ calls.execOutcome = "nonzero" /\ exitCode = 1
    /\ failed /\ calls.create = 0 /\ outputs.checkpointId = ""

C2_WitnessRejected ==
    calls.execOutcome = "rejected" /\ failed /\ calls.create = 0

\* the checkpoints of the returned list whose parsed metadata is the current
\* (runId, jobKey, stepKey)
ListedMatches ==
    {i \in DOMAIN listed :
        parseCheckpointComment(listed[i].comment) =
            [ok |-> TRUE, runId |-> inputs.runId, jobKey |-> inputs.jobKey,
             stepKey |-> inputs.stepKey]}

\* C3: when listCheckpoints returns a checkpoint whose parsed metadata equals
\* the current (runId, jobKey, stepKey), the invocation calls neither exec nor
\* getCheckpoint/restoreCheckpoint nor createCheckpoint and sets skipped=true,
\* checkpoint-id=the id of the first such checkpoint, restored=false,
\* exit-code=0; when none matches all three fields the step is not skipped.
C3_SkipIffMatch ==
    calls.listOk =>
        IF ListedMatches # {}
        THEN /\ pc = "done" /\ skipped /\ ~failed
             /\ calls.exec = 0 /\ calls.get = 0 /\ calls.restore = 0 /\ calls.create = 0
             /\ outputs = Outputs("true", listed[Min(ListedMatches)].id, "false", "0")
        ELSE /\ ~skipped
             /\ pc \in {"maybeRestore", "restoreCheckpoint", "exec", "createCheckpoint", "done"}
             /\ pc = "done" => (calls.exec = 1 /\ outputs.skipped = "false")

C3_Witness ==
    /\ calls.listOk /\ Cardinality(ListedMatches) = 2
    /\ outputs = Outputs("true", IdOf(1), "false", "0")

C3_WitnessOtherRun ==
    /\ calls.listOk /\ ListedMatches = {} /\ calls.exec = 1
    /\ \E i \in DOMAIN listed :
          LET m == parseCheckpointComment(listed[i].comment)
          IN m.ok /\ m.runId # inputs.runId /\ m.jobKey = inputs.jobKey
             /\ m.stepKey = inputs.stepKey

----------------------------------------------------------------------------
(* One operation of SpritesClient against the server *)

IsSpriteLookup(options) == options.method = "GET" /\ options.path = SpritePath
IsSpriteCreate(options) == options.method = "POST" /\ options.path = "/sprites"
IsSpriteDelete(options) == options.method = "DELETE" /\ options.path = SpritePath

\* the status of a successful response to each kind of request
SuccessStatus(options) ==
    CASE IsSpriteCreate(options) -> 201
      [] options.method = "DELETE" -> 204
      [] OTHER -> 200

\* the wire contract: which responses the server can give, given whether it
\* holds a sprite of the requested name
ServerAllows(options, resp) ==
    resp.kind = "http" =>
        /\ resp.status < 400 => resp.status = SuccessStatus(options)
        /\ (resp.status < 400 /\ (IsSpriteLookup(options) \/ IsSpriteCreate(options)))
              => resp.body = "json"
        /\ (resp.status = 204) => resp.body = ""
        /\ IsSpriteLookup(options) => (resp.status = 200 => sprite) /\ (resp.status = 404 => ~sprite)
        /\ IsSpriteCreate(options) => (resp.status = 201 => ~sprite)
        /\ IsSpriteDelete(options) => (resp.status = 204 => sprite) /\ (resp.status = 404 => ~sprite)

\* whether the server holds the sprite after answering
ServerAfter(options, resp) ==
    LET unsure == resp.kind # "http" \/ resp.status >= 500
    IN CASE IsSpriteCreate(options) /\ resp.kind = "http" /\ resp.status = 201 -> {TRUE}
         [] IsSpriteCreate(options) /\ unsure -> {sprite, TRUE}
         [] IsSpriteDelete(options) /\ resp.kind = "http" /\ resp.status = 204 -> {FALSE}
         [] IsSpriteDelete(options) /\ unsure -> {sprite, FALSE}
         [] OTHER -> {sprite}

InitClient ==
    /\ checkpoints = <<>>
    /\ state = [spriteId |-> "gh-sprite", jobKey |-> Empty, runId |-> Empty,
                lastCheckpointId |-> ""]
    /\ runs = 0
    /\ RunIdle
    /\ ClientIdle
    /\ sprite \in BOOLEAN
    /\ RaceIdle
    /\ StreamIdle
    /\ IdentityIdle
    /\ CheckpointIdle
    /\ ActionIdle /\ fleet = {}
    /\ RetryIdle

\* a method of the client is called: its first http.request is issued
Call ==
    /\ cpc = "idle"
    /\ \E o \in Operations :
        /\ op' = o
        /\ opts' = OptionsOf(o)
        /\ gets' = IF IsSpriteLookup(OptionsOf(o)) THEN 1 ELSE 0
    /\ cpc' = "attempt"
    /\ attempts' = 1
    /\ UNCHANGED <<retries, warnings, sleeps, response, err, value, got, result,
                   sprite, posts>>
    /\ UNCHANGED exceptClient

\* request(): doRequest settles; on a rejection the catch block runs up to
\* `await this.sleep(delay)` or to its throw
Request ==
    /\ cpc = "attempt" /\ op \notin StreamingOperations
    /\ \E resp \in Responses :
        /\ ServerAllows(opts, resp)
        /\ sprite' \in ServerAfter(opts, resp)
        /\ response' = resp
        /\ LET settled == doRequest(opts, resp)
           IN IF settled.kind = "resolved"
              THEN /\ value' = settled.value
                   /\ cpc' = "resolved"
                   /\ UNCHANGED <<err, warnings>>
              ELSE /\ err' = settled.error
                   /\ UNCHANGED value
                   /\ IF ShouldRetry(opts, settled.error, retries)
                      THEN /\ warnings' = Append(warnings, Delay(retries))
                           /\ cpc' = "sleep"
                      ELSE /\ cpc' = "rejected"
                           /\ UNCHANGED warnings
    /\ UNCHANGED <<op, opts, retries, attempts, sleeps, got, result, gets, posts>>
    /\ UNCHANGED exceptClient

\* the timer of sleep(delay) fires: request(options, retries + 1) calls doRequest
SleepElapses ==
    /\ cpc = "sleep"
    /\ sleeps' = Append(sleeps, Delay(retries))
    /\ retries' = retries + 1
    /\ attempts' = attempts + 1
    /\ gets' = IF IsSpriteLookup(opts) THEN gets + 1 ELSE gets
    /\ posts' = IF IsSpriteCreate(opts) THEN posts + 1 ELSE posts
    /\ response' = NoResponse
    /\ err' = NoError
    /\ cpc' = "attempt"
    /\ UNCHANGED <<op, opts, warnings, value, got, result, sprite>>
    /\ UNCHANGED exceptClient

StreamPath(options) == options.path

\* the error a streaming call rejects with when the response has a status >= 400
\* or the request fails
StreamConnectError(options, resp) ==
    CASE resp.kind = "http" ->
            [message |-> DefaultMessage(resp.status) \o ": " \o resp.body,
             status |-> resp.status, code |-> "",
             req |-> [method |-> "POST", path |-> StreamPath(options)]]
      [] resp.kind = "timeout" ->
            [message |-> "Request timeout", status |-> 0, code |-> "TIMEOUT",
             req |-> [method |-> "POST", path |-> StreamPath(options)]]
      [] OTHER ->
            [message |-> resp.code, status |-> 0, code |-> resp.code,
             req |-> [method |-> "POST", path |-> StreamPath(options)]]

StreamFailure(options) ==
    [message |-> "stream", status |-> 0, code |-> "",
     req |-> [method |-> "POST", path |-> StreamPath(options)]]

\* createCheckpoint, restoreCheckpoint and execWithStreaming call http.request
\* once: the response callback, or the request's error or timeout handler, runs
\* and any failure rejects the call
StreamConnect ==
    /\ cpc = "attempt" /\ op \in StreamingOperations
    /\ \E resp \in {r \in Responses : r.kind # "resError"} :
        /\ ServerAllows(opts, resp)
        /\ response' = resp
        /\ IF resp.kind = "http" /\ resp.status < 400
           THEN /\ cpc' = "streaming"
                /\ UNCHANGED err
           ELSE /\ err' = StreamConnectError(opts, resp)
                /\ cpc' = "rejected"
    /\ UNCHANGED <<op, opts, retries, attempts, warnings, sleeps, value, got, result,
                   sprite, gets, posts>>
    /\ UNCHANGED exceptClient

\* the response stream of a streaming call ends, or an error event or a
\* stream error rejects the call
StreamEnds ==
    /\ cpc = "streaming"
    /\ \/ /\ cpc' = "resolved"
          /\ value' = [kind |-> "stream", body |-> ""]
          /\ UNCHANGED err
       \/ /\ cpc' = "rejected"
          /\ err' = StreamFailure(opts)
          /\ UNCHANGED value
    /\ UNCHANGED <<op, opts, retries, attempts, warnings, sleeps, response, got,
                   result, sprite, gets, posts>>
    /\ UNCHANGED exceptClient

CreateOnAnyError(apiError) == TRUE

\* (error as ApiError).status === 404
CreateOnError(apiError) == apiError.status = 404

\* the operation's own code runs once its request has settled
OpSettles ==
    /\ cpc \in {"resolved", "rejected"} /\ result = Pending
    /\ IF op = "createOrGetSprite" /\ IsSpriteLookup(opts)
       THEN IF cpc = "resolved"
            THEN /\ got' = Resolved(value)
                 /\ result' = Resolved(value)
                 /\ UNCHANGED <<cpc, opts, retries, attempts, warnings, sleeps,
                                response, err, value, posts>>
            ELSE /\ got' = Rejected(err)
                 /\ IF CreateOnError(err)
                    THEN /\ opts' = CreateOptions
                         /\ retries' = 0 /\ attempts' = 1 /\ posts' = 1
                         /\ warnings' = <<>> /\ sleeps' = <<>>
                         /\ response' = NoResponse /\ err' = NoError
                         /\ cpc' = "attempt"
                         /\ UNCHANGED <<value, result>>
                    ELSE /\ result' = Rejected(err)
                         /\ UNCHANGED <<cpc, opts, retries, attempts, warnings,
                                        sleeps, response, err, value, posts>>
       ELSE /\ result' = IF cpc = "resolved" THEN Resolved(value) ELSE Rejected(err)
            /\ UNCHANGED <<cpc, opts, retries, attempts, warnings, sleeps, response,
                           err, value, got, posts>>
    /\ UNCHANGED <<op, sprite, gets>>
    /\ UNCHANGED exceptClient

\* the caller has the operation's outcome
Return ==
    /\ result # Pending
    /\ op' = "none" /\ cpc' = "idle" /\ opts' = NoOptions
    /\ retries' = 0 /\ attempts' = 0 /\ warnings' = <<>> /\ sleeps' = <<>>
    /\ response' = NoResponse /\ err' = NoError /\ value' = NoValue
    /\ got' = Pending /\ result' = Pending
    /\ gets' = 0 /\ posts' = 0
    /\ UNCHANGED sprite
    /\ UNCHANGED exceptClient

\* another client (a concurrent attempt of the job, the cleanup action)
\* creates or deletes the sprite
OtherClient ==
    /\ sprite' = ~sprite
    /\ UNCHANGED <<op, cpc, opts, retries, attempts, warnings, sleeps, response,
                   err, value, got, result, gets, posts>>
    /\ UNCHANGED exceptClient

NextClient ==
    \/ Call
    \/ Request
    \/ SleepElapses
    \/ StreamConnect
    \/ StreamEnds
    \/ OpSettles
    \/ Return
    \/ OtherClient

SpecClient == InitClient /\ [][NextClient]_vars

----------------------------------------------------------------------------
(* Claims about SpritesClient *)

\* the failures the retry policy names: HTTP 408/429/500/502/503/504, a
\* request timeout, a connection reset, a socket timeout, a DNS failure
RetryableOutcome(resp) ==
    \/ resp.kind = "http" /\ resp.status \in {408, 429, 500, 502, 503, 504}
    \/ resp.kind = "timeout"
    \/ resp.kind \in {"reqError", "resError"}
          /\ resp.code \in {"ECONNRESET", "ETIMEDOUT", "ENOTFOUND"}

SuccessOutcome(resp) == resp.kind = "http" /\ resp.status < 400

ViaRequest == op \in Operations \ StreamingOperations
SameRequest == op' = op /\ opts' = opts

\* one step of the retry state machine, attempt n being attempt number
\* retries (from 0)
C4_Step ==
    ViaRequest =>
        \* a further attempt starts only from the backoff sleep that follows a
        \* retryable failure of attempt n < 3, once the delay has elapsed
        /\ (SameRequest /\ attempts' # attempts) =>
              /\ attempts' = attempts + 1 /\ retries' = retries + 1
              /\ cpc = "sleep" /\ retries < 3 /\ RetryableOutcome(response)
              /\ sleeps' = Append(sleeps, 1000 * (2 ^ retries))
        \* the outcome of attempt n decides what follows
        /\ (cpc = "attempt" /\ cpc' # "attempt") =>
              /\ SuccessOutcome(response') => cpc' = "resolved"
              /\ (~SuccessOutcome(response') /\ ~RetryableOutcome(response'))
                    => cpc' = "rejected"
              /\ (RetryableOutcome(response') /\ retries < 3) => cpc' = "sleep"
              /\ (RetryableOutcome(response') /\ retries >= 3) => cpc' = "rejected"
        \* a settled request makes no further attempt
        /\ (cpc \in {"resolved", "rejected"} /\ SameRequest) =>
              (cpc' = cpc /\ attempts' = attempts)

\* C4: a logical request makes at most MAX_RETRIES+1 = 4 attempts; attempt n+1
\* starts only after attempt n failed retryably with n < 3 and the backoff
\* delay elapsed; a success or a terminal failure ends the request at once; a
\* retryable failure at n = 3 ends it as a failure.
C4_RetryStateMachine ==
    /\ [](ViaRequest => (attempts <= 4 /\ attempts = retries + 1))
    /\ [][C4_Step]_vars

C4_Witness ==
    /\ ViaRequest /\ cpc = "rejected" /\ attempts = 4 /\ Len(sleeps) = 3
    /\ RetryableOutcome(response)

\* the classification of a failed attempt, on the error as request() sees it
C5_Step ==
    (ViaRequest /\ cpc = "attempt" /\ cpc' # "attempt" /\ ~SuccessOutcome(response')) =>
        LET retryable ==
                \/ err'.status \in {408, 429, 500, 502, 503, 504}
                \/ err'.code \in {"ECONNRESET", "ETIMEDOUT", "TIMEOUT", "ENOTFOUND"}
        IN /\ cpc' = "sleep" <=> (retries < 3 /\ retryable)
           /\ cpc' = "sleep" => Len(warnings') = Len(warnings) + 1
           /\ cpc' # "sleep" =>
                 /\ cpc' = "rejected" /\ warnings' = warnings /\ attempts' = attempts
                 /\ (response'.kind = "http" => err'.status = response'.status)

C5_WitnessNetwork ==
    /\ ViaRequest /\ cpc = "sleep" /\ err.code = "ENOTFOUND" /\ Len(warnings) = 2

\* C6: a request of which every attempt fails retryably is attempted exactly 4
\* times and then rejects with the error of the last attempt, which carries
\* the HTTP status (when there was a response) and the request's method and
\* path.
C6_ExhaustionErrorIsAnnotated ==
    (ViaRequest /\ cpc = "rejected" /\ RetryableOutcome(response)) =>
        /\ attempts = 4
        /\ err.req = [method |-> opts.method, path |-> opts.path]
        /\ response.kind = "http" => err.status = response.status
        /\ response.kind # "http" => err.code # ""

\* C7: if the first k attempts (1 <= k <= 3) fail retryably and attempt k+1
\* succeeds, the caller receives the body of the successful response and
\* exactly k retry warnings have been logged.
C7_SuccessAfterRetry ==
    (ViaRequest /\ cpc = "resolved") =>
        /\ SuccessOutcome(response)
        /\ value.kind # "none" /\ value.body = response.body
        /\ Len(warnings) = attempts - 1
        /\ (result.kind = "resolved" => result.value = value)
        /\ result.kind # "rejected"

C7_Witness ==
    /\ op = "getSprite" /\ attempts = 2 /\ Len(warnings) = 1
    /\ response = Http(200, "json")
    /\ result.kind = "resolved" /\ result.value = [kind |-> "object", body |-> "json"]

\* C8: a 404 response to a lookup issued with skipRetryOn404 (getSprite,
\* getCheckpoint) is raised at once: no retry, no backoff delay and no warning
\* follow it (so one attempt, zero retries when it is the first response), and
\* the error raised carries status 404.
C8_NotFoundIsNotRetried ==
    (opts.skipRetryOn404 /\ response.kind = "http" /\ response.status = 404) =>
        /\ cpc = "rejected" /\ err.status = 404
        /\ attempts = retries + 1
        /\ Len(warnings) = retries /\ Len(sleeps) = retries
        /\ (op \in {"getSprite", "getCheckpoint"} /\ result # Pending)
              => result = Rejected(err)

C8_Witness ==
    /\ op = "getSprite" /\ response.status = 404 /\ result.kind = "rejected"
    /\ result.error.status = 404
    /\ attempts = 1 /\ warnings = <<>> /\ sleeps = <<>>

\* C9: when the initial connection of createCheckpoint, restoreCheckpoint or
\* exec fails retryably, the call is issued again under the retry policy (up to
\* 3 further attempts) before the operation fails.
C9_StreamingConnectIsRetried ==
    (/\ op \in StreamingOperations /\ cpc = "rejected"
     /\ RetryableOutcome(response)) => attempts = 4

C10_WitnessExisting ==
    /\ op = "createOrGetSprite" /\ got.kind = "resolved" /\ posts = 0
    /\ result = Resolved([kind |-> "object", body |-> "json"])

C10_WitnessOtherFailure ==
    /\ op = "createOrGetSprite" /\ got.kind = "rejected" /\ got.error.status = 503
    /\ gets = 4 /\ posts = 0 /\ result.kind = "rejected"

----------------------------------------------------------------------------
(* createOrGetSprite called twice with one name: src/src/common/client.ts, *)
(* lines 43-67, against a server that keeps sprite names unique            *)

MaxCalls == 2

\* GET /v1/sprites/{name}: 200 with the sprite, 404 when there is none
ServerGet == IF sprites > 0 THEN Http(200, "json") ELSE Http(404, "json")

\* POST /v1/sprites: 201 for a new name, 400 when the name is taken
ServerPost == IF sprites = 0 THEN Http(201, "json") ELSE Http(400, "json")

InitRace ==
    /\ checkpoints = <<>>
    /\ state = [spriteId |-> "gh-sprite", jobKey |-> Empty, runId |-> Empty,
                lastCheckpointId |-> ""]
    /\ runs = 0
    /\ RunIdle
    /\ ClientIdle /\ sprite = FALSE
    /\ inv = [i \in Invocations |-> IdleInvocation]
    /\ sprites \in {0, 1}
    /\ StreamIdle
    /\ IdentityIdle
    /\ CheckpointIdle
    /\ ActionIdle /\ fleet = {}
    /\ RetryIdle

\* createOrGetSprite is called: getSprite issues its GET
RaceCall ==
    \E i \in Invocations :
        /\ inv[i].pc = "idle" /\ inv[i].calls < MaxCalls
        /\ inv' = [inv EXCEPT ![i] = [IdleInvocation EXCEPT
                        !.pc = "get", !.calls = inv[i].calls + 1]]
        /\ UNCHANGED sprites
        /\ UNCHANGED exceptRace

\* the server answers the GET
RaceServerGet ==
    \E i \in Invocations :
        /\ inv[i].pc = "get"
        /\ inv' = [inv EXCEPT ![i].pc = "getAnswered", ![i].response = ServerGet]
        /\ UNCHANGED sprites
        /\ UNCHANGED exceptRace

\* getSprite settles: the sprite is returned, or the catch block runs and on a
\* 404 the POST is issued (a 200 and a 404 are not retried by request())
RaceGetSettles ==
    \E i \in Invocations :
        /\ inv[i].pc = "getAnswered"
        /\ LET options == OptionsOf("createOrGetSprite")
               settled == doRequest(options, inv[i].response)
           IN /\ ~(settled.kind = "rejected" /\ ShouldRetry(options, settled.error, 0))
              /\ inv' = [inv EXCEPT ![i] =
                    IF settled.kind = "resolved"
                    THEN [@ EXCEPT !.pc = "done", !.got = settled, !.result = settled]
                    ELSE IF CreateOnError(settled.error)
                         THEN [@ EXCEPT !.pc = "post", !.got = settled,
                                        !.response = NoResponse]
                         ELSE [@ EXCEPT !.pc = "done", !.got = settled,
                                        !.result = settled]]
        /\ UNCHANGED sprites
        /\ UNCHANGED exceptRace

\* the server answers the POST and creates the sprite when the name is free
RaceServerPost ==
    \E i \in Invocations :
        /\ inv[i].pc = "post"
        /\ inv' = [inv EXCEPT ![i].pc = "postAnswered", ![i].response = ServerPost]
        /\ sprites' = IF sprites = 0 THEN 1 ELSE sprites
        /\ UNCHANGED exceptRace

\* the POST settles: createOrGetSprite returns the new sprite or throws
RacePostSettles ==
    \E i \in Invocations :
        /\ inv[i].pc = "postAnswered"
        /\ LET settled == doRequest(CreateOptions, inv[i].response)
           IN /\ ~(settled.kind = "rejected" /\ ShouldRetry(CreateOptions, settled.error, 0))
              /\ inv' = [inv EXCEPT ![i].pc = "done", ![i].result = settled]
        /\ UNCHANGED sprites
        /\ UNCHANGED exceptRace

\* the caller has the outcome
RaceReturn ==
    \E i \in Invocations :
        /\ inv[i].pc = "done"
        /\ inv' = [inv EXCEPT ![i] = [IdleInvocation EXCEPT !.calls = inv[i].calls]]
        /\ UNCHANGED sprites
        /\ UNCHANGED exceptRace

NextRace ==
    \/ RaceCall
    \/ RaceServerGet
    \/ RaceGetSettles
    \/ RaceServerPost
    \/ RacePostSettles
    \/ RaceReturn

SpecRace == InitRace /\ [][NextRace]_vars

\* C11: createOrGetSprite is idempotent by name under races: whenever an
\* invocation has finished, it returned the sprite without error, and the
\* server holds at most one sprite of the name.
C11_IdempotentUnderRaces ==
    /\ sprites <= 1
    /\ \A i \in Invocations :
          inv[i].pc = "done" => inv[i].result.kind = "resolved"

----------------------------------------------------------------------------
(* The NDJSON response stream of createCheckpoint, restoreCheckpoint and   *)
(* execWithStreaming: src/src/common/client.ts, lines 143-492              *)

MaxLines == 3

Sp == " "
Nl == "\n"
IsSpace(t) == t \in {Sp, Nl}

\* a line JSON.parse accepts, as the event it encodes
Event(type, data, code, error) ==
    [json |-> TRUE, type |-> type, data |-> data, code |-> code, error |-> error,
     text |-> <<>>]
\* a non-empty line JSON.parse throws on
RawLine(text) ==
    [json |-> FALSE, type |-> "", data |-> <<>>, code |-> 0, error |-> <<>>,
     text |-> text]

Info(data) == Event("info", data, 0, <<>>)
Complete(data) == Event("complete", data, 0, <<>>)
ErrorEvent(error) == Event("error", <<>>, 0, error)
Stdout(data) == Event("stdout", data, 0, <<>>)
Stderr(data) == Event("stderr", data, 0, <<>>)
Exit(code) == Event("exit", <<>>, code, <<>>)

Created(id) == <<"Checkpoint", Sp, id, Sp, "created">>

\* lines a checkpoint or restore stream may carry
CheckpointLines ==
    { Info(<<"Creating", Sp, "checkpoint">>),
      Complete(Created("v8")), Complete(Created("v9")), Complete(<<"done">>),
      ErrorEvent(<<"boom">>), ErrorEvent(<<"disk", Sp, "full">>),
      RawLine(<<"{\"type\":">>) }

\* lines an exec stream may carry
ExecLines ==
    { Stdout(<<"Hello", Sp>>), Stdout(<<"World", Nl>>), Stderr(<<"oops">>),
      Exit(0), Exit(1), ErrorEvent(<<"boom">>), RawLine(<<"plain", Sp, "text">>) }

LinesOf(o) == IF o = "exec" THEN ExecLines ELSE CheckpointLines

\* event.data.match(/Checkpoint (\S+) created/): the places where it matches
CreatedStarts(data) ==
    {i \in 1..Len(data) :
        /\ i + 4 <= Len(data)
        /\ data[i] = "Checkpoint" /\ data[i + 1] = Sp
        /\ ~IsSpace(data[i + 2])
        /\ data[i + 3] = Sp /\ data[i + 4] = "created"}
CreatedMatches(data) == CreatedStarts(data) # {}
\* match[1]
CreatedId(data) == data[Min(CreatedStarts(data)) + 2]

StreamReq(o) == [method |-> "POST", path |-> OptionsOf(o).path]

\* reject({ message: event.error, req })
EventError(o, line) == [message |-> line.error, code |-> "", req |-> StreamReq(o)]
\* reject({ message: 'Failed to parse checkpoint creation response', req })
NoIdError(o) ==
    [message |-> <<"Failed to parse checkpoint creation response">>, code |-> "",
     req |-> StreamReq(o)]
\* req.on('timeout')
StreamTimeoutError(o) ==
    [message |-> <<"Request timeout">>, code |-> "TIMEOUT", req |-> StreamReq(o)]
\* res.on('error', reject): the stream's own Error
StreamRawError(c) == [message |-> <<c>>, code |-> c, req |-> NoReq]

SettleLast(p, outcome) == outcome

\* resolve and reject of a promise: the first call settles it
Settle(p, outcome) == IF p.kind = "pending" THEN outcome ELSE p

Wrote(to, text) == [to |-> to, text |-> text]

InitStream ==
    /\ checkpoints = <<>>
    /\ state = [spriteId |-> "gh-sprite", jobKey |-> Empty, runId |-> Empty,
                lastCheckpointId |-> ""]
    /\ runs = 0
    /\ RunIdle
    /\ ClientIdle /\ sprite = TRUE
    /\ RaceIdle
    /\ StreamIdle
    /\ IdentityIdle
    /\ CheckpointIdle
    /\ ActionIdle /\ fleet = {}
    /\ RetryIdle

\* the response callback runs with a status below 400
StreamOpens ==
    /\ spc = "idle"
    /\ sop' \in StreamingOperations
    /\ spc' = "streaming"
    /\ UNCHANGED <<seen, sent, promise, streamId, stdout, stderr, streamExit, sink>>
    /\ UNCHANGED exceptStream

\* createCheckpoint's 'data' handler, for one line of the chunk
CreateCheckpointOnLine(line) ==
    /\ streamId' = IF line.json /\ line.type = "complete" /\ CreatedMatches(line.data)
                   THEN CreatedId(line.data)
                   ELSE streamId
    /\ sink' = IF line.json /\ line.type \in {"info", "complete"}
               THEN Append(sink, Wrote("info", line.data))
               ELSE sink
    /\ promise' = IF line.json /\ line.type = "error"
                  THEN Settle(promise, Failed(EventError(sop, line)))
                  ELSE promise
    /\ UNCHANGED <<stdout, stderr, streamExit>>

\* restoreCheckpoint's 'data' handler
RestoreOnLine(line) ==
    /\ sink' = IF line.json /\ line.type \in {"info", "complete"}
               THEN Append(sink, Wrote("info", line.data))
               ELSE sink
    /\ promise' = IF line.json /\ line.type = "error"
                  THEN Settle(promise, Failed(EventError(sop, line)))
                  ELSE promise
    /\ UNCHANGED <<streamId, stdout, stderr, streamExit>>

RawDiscarded(out, line) == out

\* catch: process.stdout.write(line); stdout += line
RawToStdout(out, line) == out \o line.text

ExitCodeZero(line) == 0

\* exitCode = event.code
ExitCodeOf(line) == line.code

\* execWithStreaming's 'data' handler
ExecOnLine(line) ==
    /\ stdout' = IF ~line.json THEN RawToStdout(stdout, line)
                 ELSE IF line.type = "stdout" THEN stdout \o line.data
                 ELSE stdout
    /\ stderr' = IF line.json /\ line.type = "stderr" THEN stderr \o line.data ELSE stderr
    /\ streamExit' = IF line.json /\ line.type = "exit" THEN ExitCodeOf(line) ELSE streamExit
    /\ sink' = IF ~line.json THEN Append(sink, Wrote("stdout", line.text))
               ELSE IF line.type = "stdout" THEN Append(sink, Wrote("stdout", line.data))
               ELSE IF line.type = "stderr" THEN Append(sink, Wrote("stderr", line.data))
               ELSE sink
    /\ UNCHANGED <<promise, streamId>>

\* res.on('data'): the lines of a chunk are handled one after the other
OnData ==
    /\ spc = "streaming" /\ Len(seen) < MaxLines
    /\ \E line \in LinesOf(sop) :
        /\ seen' = Append(seen, line)
        /\ sent' = Append(sent, line)
        /\ CASE sop = "createCheckpoint" -> CreateCheckpointOnLine(line)
             [] sop = "restoreCheckpoint" -> RestoreOnLine(line)
             [] OTHER -> ExecOnLine(line)
    /\ UNCHANGED <<sop, spc>>
    /\ UNCHANGED exceptStream

HasCheckpointIdAlways(id) == TRUE

\* if (checkpointId)
HasCheckpointId(id) == id # ""

\* res.on('end')
OnEnd ==
    /\ spc = "streaming"
    /\ spc' = "ended"
    /\ CASE sop = "createCheckpoint" ->
              IF HasCheckpointId(streamId)
              THEN /\ sink' = Append(sink, Wrote("info", <<"Created checkpoint">>))
                   /\ promise' = Settle(promise,
                        Fulfilled([NoStreamValue EXCEPT !.id = streamId, !.comment = TRUE]))
              ELSE /\ promise' = Settle(promise, Failed(NoIdError(sop)))
                   /\ UNCHANGED sink
         [] sop = "restoreCheckpoint" ->
              /\ sink' = Append(sink, Wrote("info", <<"Restored sprite">>))
              /\ promise' = Settle(promise, Fulfilled(NoStreamValue))
         [] OTHER ->
              /\ promise' = Settle(promise,
                    Fulfilled([NoStreamValue EXCEPT !.exitCode = streamExit,
                                                    !.stdout = stdout, !.stderr = stderr]))
              /\ UNCHANGED sink
    /\ UNCHANGED <<sop, seen, sent, streamId, stdout, stderr, streamExit>>
    /\ UNCHANGED exceptStream

\* res.on('error', reject)
OnResError ==
    /\ spc = "streaming"
    /\ spc' = "closed"
    /\ promise' = Settle(promise, Failed(StreamRawError("ECONNRESET")))
    /\ UNCHANGED <<sop, seen, sent, streamId, stdout, stderr, streamExit, sink>>
    /\ UNCHANGED exceptStream

\* req.on('timeout'): req.destroy() and reject
OnTimeout ==
    /\ spc = "streaming"
    /\ spc' = "closed"
    /\ promise' = Settle(promise, Failed(StreamTimeoutError(sop)))
    /\ UNCHANGED <<sop, seen, sent, streamId, stdout, stderr, streamExit, sink>>
    /\ UNCHANGED exceptStream

NextStream ==
    \/ StreamOpens
    \/ OnData
    \/ OnEnd
    \/ OnResError
    \/ OnTimeout

SpecStream == InitStream /\ [][NextStream]_vars

----------------------------------------------------------------------------
(* The same streams when the transport divides a line between two chunks:  *)
(* the 'data' handlers split each chunk on '\n' by itself                   *)

\* the characters of a text, as one string
RECURSIVE Flat(_)
Flat(text) == IF text = <<>> THEN "" ELSE Head(text) \o Flat(Tail(text))

\* JSON.stringify of an event, in two parts: up to the comma after its type,
\* and the rest
JsonHead(line) == "{\"type\":\"" \o line.type \o "\","
JsonRest(line) ==
    "\"data\":\"" \o Flat(line.data) \o "\",\"code\":" \o ToString(line.code)
        \o ",\"error\":\"" \o Flat(line.error) \o "\"}"

\* a line may be cut where it has more than one character
Divisible(line) == line.json \/ Len(line.text) >= 2

\* chunk.toString().split('\n').filter(Boolean) of the chunk that ends with
\* the first part of the line and of the chunk that starts with the rest:
\* each part is a piece of its own, and JSON.parse throws on an object that
\* is not closed and on text that closes an object it did not open
FirstPiece(line) ==
    IF line.json THEN RawLine(<<JsonHead(line)>>) ELSE RawLine(<<Head(line.text)>>)
SecondPiece(line) ==
    IF line.json THEN RawLine(<<JsonRest(line)>>) ELSE RawLine(Tail(line.text))

\* res.on('data') twice: the chunk with the first part of a line, then the
\* chunk with the rest.  The handlers of createCheckpoint and
\* restoreCheckpoint ignore a piece JSON.parse throws on; execWithStreaming
\* writes it to stdout.
OnDataSplit ==
    /\ spc = "streaming" /\ Len(seen) + 2 <= MaxLines
    /\ \E line \in LinesOf(sop) :
        /\ Divisible(line)
        /\ sent' = Append(sent, line)
        /\ seen' = seen \o <<FirstPiece(line), SecondPiece(line)>>
        /\ IF sop = "exec"
           THEN /\ stdout' = RawToStdout(RawToStdout(stdout, FirstPiece(line)),
                                         SecondPiece(line))
                /\ sink' = sink \o <<Wrote("stdout", FirstPiece(line).text),
                                     Wrote("stdout", SecondPiece(line).text)>>
           ELSE UNCHANGED <<stdout, sink>>
    /\ UNCHANGED <<sop, spc, promise, streamId, stderr, streamExit>>
    /\ UNCHANGED exceptStream

NextChunks ==
    \/ StreamOpens
    \/ OnData
    \/ OnDataSplit
    \/ OnEnd
    \/ OnResError
    \/ OnTimeout

SpecChunks == InitStream /\ [][NextChunks]_vars

----------------------------------------------------------------------------
(* Claims about the response streams *)

Max(S) == CHOOSE x \in S : \A y \in S : y <= x

IsEvent(line, type) == line.json /\ line.type = type
EventsSeen(type) == {i \in DOMAIN seen : IsEvent(seen[i], type)}
\* the complete events whose data reads 'Checkpoint <id> created'
CreatedSeen == {i \in EventsSeen("complete") : CreatedMatches(seen[i].data)}

C13_ErrorEventFailsTheCall ==
    (sop \in {"createCheckpoint", "restoreCheckpoint"} /\ EventsSeen("error") # {}) =>
        /\ promise.kind = "rejected"
        /\ promise.error.message = seen[Min(EventsSeen("error"))].error

C13_Witness ==
    /\ sop = "createCheckpoint" /\ spc = "ended"
    /\ seen = << Complete(Created("v8")), ErrorEvent(<<"boom">>),
                 Complete(Created("v9")) >>
    /\ promise.kind = "rejected" /\ promise.error.message = <<"boom">>

\* C14: restoreCheckpoint reports success only if a complete event was
\* received on the stream.
C14_RestoreNeedsComplete ==
    (sop = "restoreCheckpoint" /\ promise.kind = "resolved") =>
        EventsSeen("complete") # {}

\* C15: exec returns a result only if an exit event was received, and
\* exitCode 0 only if an exit event carrying code 0 was received.
C15_ExecNeedsExit ==
    (sop = "exec" /\ promise.kind = "resolved") =>
        /\ EventsSeen("exit") # {}
        /\ promise.value.exitCode = 0 =>
              \E i \in EventsSeen("exit") : seen[i].code = 0

RECURSIVE DataOf(_, _)
\* the data of the events of one type, concatenated in arrival order
DataOf(lines, type) ==
    IF lines = <<>> THEN <<>>
    ELSE (IF IsEvent(Head(lines), type) THEN Head(lines).data ELSE <<>>)
            \o DataOf(Tail(lines), type)

RECURSIVE StdoutOf(_)
\* the data of the stdout events and the text of the lines that are no JSON,
\* concatenated in arrival order
StdoutOf(lines) ==
    IF lines = <<>> THEN <<>>
    ELSE (IF ~Head(lines).json THEN Head(lines).text
          ELSE IF Head(lines).type = "stdout" THEN Head(lines).data
          ELSE <<>>)
            \o StdoutOf(Tail(lines))

ExecResolved == sop = "exec" /\ promise.kind = "resolved"
ExitCodeSeen ==
    EventsSeen("exit") # {} =>
        promise.value.exitCode = seen[Max(EventsSeen("exit"))].code

\* C16 as stated: the stdout of the result is the concatenation of the data of
\* the stdout events alone.
C16_StdoutOfEventsOnly ==
    ExecResolved =>
        /\ promise.value.stdout = DataOf(seen, "stdout")
        /\ promise.value.stderr = DataOf(seen, "stderr")
        /\ ExitCodeSeen

\* C16: exec resolves with stdout equal to the concatenation, in arrival
\* order, of the data of all stdout events and of the lines that are no JSON,
\* stderr equal to the concatenation of the data of all stderr events, and
\* exitCode equal to the code of the last exit event.
C16_ExecResult ==
    ExecResolved =>
        /\ promise.value.stdout = StdoutOf(seen)
        /\ promise.value.stderr = DataOf(seen, "stderr")
        /\ ExitCodeSeen

C16_Witness ==
    /\ ExecResolved
    /\ seen = << Stdout(<<"Hello", Sp>>), Stdout(<<"World", Nl>>), Exit(0) >>
    /\ promise.value = [NoStreamValue EXCEPT !.stdout = <<"Hello", Sp, "World", Nl>>]

RECURSIVE RawWrites(_)
\* what the lines that are no JSON, and the stdout events around them, put
\* on process.stdout
RawWrites(lines) ==
    IF lines = <<>> THEN <<>>
    ELSE (IF ~Head(lines).json THEN <<Wrote("stdout", Head(lines).text)>>
          ELSE IF Head(lines).type = "stdout" THEN <<Wrote("stdout", Head(lines).data)>>
          ELSE <<>>)
            \o RawWrites(Tail(lines))

IsStdoutWrite(w) == w.to = "stdout"

\* C17: on an exec stream every line that fails JSON parsing is appended to
\* stdout and written to the log, in arrival order: none is discarded.
C17_RawLinesAreStdout ==
    sop = "exec" =>
        /\ stdout = StdoutOf(seen)
        /\ SelectSeq(sink, IsStdoutWrite) = RawWrites(seen)

C17_Witness ==
    /\ sop = "exec" /\ spc = "streaming"
    /\ seen = << Stdout(<<"Hello", Sp>>), RawLine(<<"plain", Sp, "text">>),
                 RawLine(<<"plain", Sp, "text">>) >>
    /\ stdout = <<"Hello", Sp, "plain", Sp, "text", "plain", Sp, "text">>

----------------------------------------------------------------------------
(* Identity derivation: src/src/common/identity.ts, lines 1-79 *)

MAX_SPRITE_NAME_LENGTH == 128
HASH_LENGTH == 8

LowerCase ==
    <<"a", "b", "c", "d", "e", "f", "g", "h", "i", "j", "k", "l", "m", "n", "o", "p", "q", "r", "s", "t", "u", "v", "w", "x", "y", "z">>
UpperCase ==
    <<"A", "B", "C", "D", "E", "F", "G", "H", "I", "J", "K", "L", "M", "N", "O", "P", "Q", "R", "S", "T", "U", "V", "W", "X", "Y", "Z">>
Digits == <<"0", "1", "2", "3", "4", "5", "6", "7", "8", "9">>
Hyphen == "-"
Quote == "\""

\* the characters of the model, in code unit order
CodeUnits ==
    <<" ", Quote, ",", Hyphen, ".", "/">> \o Digits \o <<":", Semi, Eq>>
        \o UpperCase \o <<"[", "]", "_">> \o LowerCase \o <<"{", "}">>
Code(c) == CHOOSE i \in DOMAIN CodeUnits : CodeUnits[i] = c

Range(f) == {f[i] : i \in DOMAIN f}

\* String.prototype.toLowerCase, one character
ToLower(c) ==
    IF c \in Range(UpperCase)
    THEN LowerCase[CHOOSE i \in DOMAIN UpperCase : UpperCase[i] = c]
    ELSE c

\* ALLOWED_CHARS = /[^a-z0-9-]/g matches the characters that are not allowed
Allowed(c) == c \in Range(LowerCase) \cup Range(Digits) \cup {Hyphen}

\* .replace(/-+/g, '-'): of each run of hyphens one is kept
CollapseHyphens(t) ==
    LET kept == SelectSeq([i \in DOMAIN t |-> i],
                          LAMBDA i : ~(t[i] = Hyphen /\ i > 1 /\ t[i - 1] = Hyphen))
    IN [k \in DOMAIN kept |-> t[kept[k]]]

\* .replace(/^-|-$/g, ''): a hyphen at the start and a hyphen at the end
TrimHyphens(t) ==
    LET a == IF t # <<>> /\ t[1] = Hyphen THEN Tail(t) ELSE t
    IN IF a # <<>> /\ a[Len(a)] = Hyphen THEN SubSeq(a, 1, Len(a) - 1) ELSE a

normalizeForSpriteName(input) ==
    LET lowered == [i \in DOMAIN input |-> ToLower(input[i])]
        replaced == [i \in DOMAIN lowered |->
                        IF Allowed(lowered[i]) THEN lowered[i] ELSE Hyphen]
    IN TrimHyphens(CollapseHyphens(replaced))

HexDigits == Digits \o <<"a", "b", "c", "d", "e", "f">>
Hex4(n) ==
    << HexDigits[((n \div 4096) % 16) + 1], HexDigits[((n \div 256) % 16) + 1],
       HexDigits[((n \div 16) % 16) + 1], HexDigits[(n % 16) + 1] >>

\* a * b modulo a modulus below 2^16, within 32-bit integers
MulMod(a, b, modulus) ==
    (((a * (b \div 256)) % modulus) * 256 + a * (b % 256)) % modulus

RECURSIVE PowMod(_, _, _)
PowMod(b, k, modulus) ==
    IF k = 0 THEN 1
    ELSE LET half == PowMod(b, k \div 2, modulus)
             square == MulMod(half, half, modulus)
         IN IF k % 2 = 1 THEN MulMod(square, b, modulus) ELSE square

RECURSIVE SumMod(_, _, _, _, _)
\* the sum of Code(t[i]) * mult^(Len(t) - i) over lo..hi
SumMod(t, lo, hi, mult, modulus) ==
    IF lo > hi THEN 0
    ELSE IF lo = hi THEN MulMod(PowMod(mult, Len(t) - lo, modulus), Code(t[lo]), modulus)
    ELSE LET mid == (lo + hi) \div 2
         IN (SumMod(t, lo, mid, mult, modulus) + SumMod(t, mid + 1, hi, mult, modulus))
                % modulus

\* a digest of the text: the fold h := (h * mult + code) % modulus over its
\* code units, from h
Digest(t, h, mult, modulus) ==
    (MulMod(PowMod(mult, Len(t), modulus), h, modulus)
        + SumMod(t, 1, Len(t), mult, modulus)) % modulus

\* sha256(input) in hex, cut to HASH_LENGTH characters; the digest function
\* stands for SHA-256: a fixed function of the text giving 8 hex characters
shortHash(input) ==
    SubSeq(Hex4(Digest(input, 7, 31, 65521)) \o Hex4(Digest(input, 3, 17, 65519)),
           1, HASH_LENGTH)

\* JSON values of a matrix: a string, a number, an object (own properties in
\* insertion order)
Str(chars) == [t |-> "str", s |-> chars, n |-> 0, o |-> <<>>]
Num(n) == [t |-> "num", s |-> <<>>, n |-> n, o |-> <<>>]
Obj(props) == [t |-> "obj", s |-> <<>>, n |-> 0, o |-> props]
Prop(k, v) == [k |-> k, v |-> v]

\* Object.keys(o)
ObjectKeys(props) == [i \in DOMAIN props |-> props[i].k]
HasOwn(props, k) == \E i \in DOMAIN props : props[i].k = k
Get(props, k) == props[CHOOSE i \in DOMAIN props : props[i].k = k].v

RECURSIVE Less(_, _)
\* the default comparison of Array.prototype.sort: by code units
Less(a, b) ==
    IF b = <<>> THEN FALSE
    ELSE IF a = <<>> THEN TRUE
    ELSE IF a[1] = b[1] THEN Less(Tail(a), Tail(b))
    ELSE Code(a[1]) < Code(b[1])

UnsortedKeys(props) == ObjectKeys(props)

\* Object.keys(context.matrix).sort()
SortedKeys(props) == SortSeq(ObjectKeys(props), Less)

RECURSIVE Decimal(_)
Decimal(n) ==
    IF n < 10 THEN <<Digits[n + 1]>>
    ELSE Decimal(n \div 10) \o <<Digits[(n % 10) + 1]>>

Quoted(chars) == <<Quote>> \o chars \o <<Quote>>

RECURSIVE Stringify(_, _)
RECURSIVE Members(_, _, _)
\* JSON.stringify(value, replacer) with an array replacer: the array is the
\* list of the property names serialized, in that order, for the value and
\* for every object nested in it
Stringify(v, replacer) ==
    CASE v.t = "str" -> Quoted(v.s)
      [] v.t = "num" -> Decimal(v.n)
      [] OTHER -> <<"{">> \o Members(v.o, replacer, replacer) \o <<"}">>

Members(props, names, replacer) ==
    IF names = <<>> THEN <<>>
    ELSE LET rest == Members(props, Tail(names), replacer)
         IN IF ~HasOwn(props, Head(names)) THEN rest
            ELSE LET member == Quoted(Head(names)) \o <<":">>
                                 \o Stringify(Get(props, Head(names)), replacer)
                 IN IF rest = <<>> THEN member ELSE member \o <<",">> \o rest

RECURSIVE Join(_, _)
\* Array.prototype.join
Join(parts, sep) ==
    IF parts = <<>> THEN <<>>
    ELSE IF Len(parts) = 1 THEN parts[1]
    ELSE parts[1] \o <<sep>> \o Join(Tail(parts), sep)

\* an absent matrix, and a matrix with its properties
NoMatrix == [has |-> FALSE, props |-> <<>>]
Matrix(props) == [has |-> TRUE, props |-> props]

\* context.matrix && Object.keys(context.matrix).length > 0
MatrixPresent(context) == context.matrix.has /\ Len(context.matrix.props) > 0

\* JSON.stringify(context.matrix, Object.keys(context.matrix).sort())
MatrixStr(context) ==
    Stringify(Obj(context.matrix.props), SortedKeys(context.matrix.props))

\* parts.join('-') before the length check
UntruncatedName(context) ==
    LET parts == << <<"g", "h">>,
                    normalizeForSpriteName(context.owner),
                    normalizeForSpriteName(context.repo),
                    normalizeForSpriteName(context.workflow),
                    context.runId,
                    normalizeForSpriteName(context.job) >>
                 \o (IF MatrixPresent(context)
                     THEN <<shortHash(MatrixStr(context))>>
                     ELSE <<>>)
    IN Join(parts, Hyphen)

KeepName(name) == name

\* if (name.length > MAX_SPRITE_NAME_LENGTH) { ... }
TruncateName(name) ==
    LET hash == shortHash(name)
        maxBaseLength == MAX_SPRITE_NAME_LENGTH - Len(hash) - 1
    IN IF Len(name) > MAX_SPRITE_NAME_LENGTH
       THEN SubSeq(name, 1, maxBaseLength) \o <<Hyphen>> \o hash
       ELSE name

deriveSpriteNameFromContext(context) == TruncateName(UntruncatedName(context))

DeriveJobKeyWithAttempt(context) ==
    Join(<<context.job, Decimal(context.runAttempt)>>, Hyphen)

deriveJobKey(context) ==
    LET parts == <<context.job>>
                 \o (IF MatrixPresent(context)
                     THEN <<shortHash(MatrixStr(context))>>
                     ELSE <<>>)
    IN Join(parts, Hyphen)

\* the contexts derived from
Owners == {<<"A", "c", "m", "e">>, <<"m", "y", "_", "o", "r", "g">>}
Jobs == {<<"b", "u", "i", "l", "d">>, <<"T", "e", "s", "t", " ", "J", "o", "b">>}
MatrixKeys == {<<"o", "s">>, <<"n", "o", "d", "e">>}
NameKey == <<"n", "a", "m", "e">>
MatrixValues ==
    { Str(<<"l", "i", "n", "u", "x">>), Num(18),
      Obj(<<Prop(NameKey, Str(<<"l", "i", "n", "u", "x">>))>>), Obj(<<Prop(NameKey, Str(<<"w", "i", "n", "d", "o", "w", "s">>))>>),
      Obj(<<Prop(<<"o", "s">>, Str(<<"l", "i", "n", "u", "x">>))>>) }
Matrices ==
    {<<>>}
      \cup {<<Prop(k, v)>> : k \in MatrixKeys, v \in MatrixValues}
      \cup {<<Prop(k1, v1), Prop(k2, v2)>> :
                <<k1, k2>> \in {kk \in MatrixKeys \X MatrixKeys : kk[1] # kk[2]},
                <<v1, v2>> \in MatrixValues \X MatrixValues}
Padding(n) == [i \in 1..n |-> "x"]
\* owners that bring the joined name to the limit and past it, and a run id
\* that is not a decimal number
LongOwners == {Padding(MAX_SPRITE_NAME_LENGTH - 29), Padding(MAX_SPRITE_NAME_LENGTH - 28),
               Padding(MAX_SPRITE_NAME_LENGTH)}
RunIds == {<<"4", "2">>, <<"R", "u", "n", "_", "7">>}
Contexts ==
    [owner : Owners, repo : {<<"R", "e", "p", "o", ".", "j", "s">>}, workflow : {<<"C", "I", " ", "B", "u", "i", "l", "d">>}, runId : {<<"4", "2">>}, job : Jobs,
     matrix : {NoMatrix} \cup {Matrix(m) : m \in Matrices}, runAttempt : {1}]
      \cup [owner : LongOwners \cup Owners, repo : {<<"R", "e", "p", "o", ".", "j", "s">>}, workflow : {<<"C", "I", " ", "B", "u", "i", "l", "d">>}, runId : RunIds,
            job : {<<"b", "u", "i", "l", "d">>},
            matrix : {NoMatrix, Matrix(<<Prop(<<"o", "s">>, Str(<<"l", "i", "n", "u", "x">>))>>)}, runAttempt : {1}]

\* the same properties in another insertion order
Reorderings(props) ==
    {[i \in DOMAIN props |-> props[f[i]]] : f \in Permutations(DOMAIN props)} \ {props}

InitIdentity ==
    /\ checkpoints = <<>>
    /\ state = [spriteId |-> "gh-sprite", jobKey |-> Empty, runId |-> Empty,
                lastCheckpointId |-> ""]
    /\ runs = 0
    /\ RunIdle
    /\ ClientIdle /\ sprite = FALSE
    /\ RaceIdle
    /\ StreamIdle
    /\ CheckpointIdle
    /\ ActionIdle /\ fleet = {}
    /\ RetryIdle
    /\ ctx \in Contexts
    /\ other = ctx
    /\ how = "same"
    /\ derived = NotDerived

\* the job is rerun: a new attempt of the same run
Rerun ==
    /\ how = "same" /\ ~derived.done
    /\ other' = [ctx EXCEPT !.runAttempt = @ + 1]
    /\ how' = "rerun"
    /\ UNCHANGED <<ctx, derived>>
    /\ UNCHANGED exceptIdentity

\* the matrix arrives with its keys in another order
ReorderMatrix ==
    /\ how = "same" /\ ~derived.done
    /\ \E props \in Reorderings(ctx.matrix.props) :
          other' = [ctx EXCEPT !.matrix = Matrix(props)]
    /\ how' = "permuted"
    /\ UNCHANGED <<ctx, derived>>
    /\ UNCHANGED exceptIdentity

\* another job of the matrix: the same keys with other values
ChangeMatrixValues ==
    /\ how = "same" /\ ~derived.done
    /\ MatrixPresent(ctx)
    /\ \E props \in Matrices :
          /\ ObjectKeys(props) = ObjectKeys(ctx.matrix.props)
          /\ props # ctx.matrix.props
          /\ other' = [ctx EXCEPT !.matrix = Matrix(props)]
    /\ how' = "values"
    /\ UNCHANGED <<ctx, derived>>
    /\ UNCHANGED exceptIdentity

\* both derivations are applied to both contexts
Derive ==
    /\ ~derived.done
    /\ derived' = [done |-> TRUE,
                   name |-> deriveSpriteNameFromContext(ctx),
                   jobKey |-> deriveJobKey(ctx),
                   otherName |-> deriveSpriteNameFromContext(other),
                   otherJobKey |-> deriveJobKey(other)]
    /\ UNCHANGED <<ctx, other, how>>
    /\ UNCHANGED exceptIdentity

NextIdentity ==
    \/ Rerun
    \/ ReorderMatrix
    \/ ChangeMatrixValues
    \/ Derive

SpecIdentity == InitIdentity /\ [][NextIdentity]_vars

----------------------------------------------------------------------------
(* Claims about identity derivation *)

SameIdentity == derived.name = derived.otherName /\ derived.jobKey = derived.otherJobKey

\* C18: identity does not depend on runAttempt: two contexts that differ only
\* in runAttempt (a rerun) give the same sprite name and the same job key, and
\* deriving again from the same context gives the same strings.
C18_IdentityIgnoresRunAttempt ==
    derived.done =>
        /\ how = "rerun" => SameIdentity
        /\ derived.name = deriveSpriteNameFromContext(ctx)
        /\ derived.jobKey = deriveJobKey(ctx)

C18_Witness ==
    /\ derived.done /\ how = "rerun"
    /\ other.runAttempt # ctx.runAttempt
    /\ MatrixPresent(ctx)
    /\ SameIdentity

\* C19: two contexts whose matrices hold the same key-value pairs in another
\* key order give the same sprite name and the same job key.
C19_MatrixOrderIndependent ==
    (derived.done /\ how = "permuted") => SameIdentity

C19_Witness ==
    /\ derived.done /\ how = "permuted"
    /\ other.matrix # ctx.matrix
    /\ ObjectKeys(other.matrix.props) # ObjectKeys(ctx.matrix.props)
    /\ SameIdentity

\* C20: two contexts that differ only in their matrix values have different
\* serialized matrices, hence different job keys and different sprite names,
\* also when the values are nested objects.
C20_DifferentValuesDifferentIdentity ==
    (derived.done /\ how = "values") =>
        /\ MatrixStr(ctx) # MatrixStr(other)
        /\ derived.jobKey # derived.otherJobKey
        /\ derived.name # derived.otherName

----------------------------------------------------------------------------
(* Further claims about SpritesClient.request *)

RECURSIVE Sum(_)
Sum(s) == IF s = <<>> THEN 0 ELSE s[1] + Sum(Tail(s))

\* C28: the delay slept before the retry that follows failed attempt n (n = 0,
\* 1, 2) is 1000 * 2^n ms: 1000, 2000, 4000; the delays of a request strictly
\* increase and sum to at most 7000 ms; each delay is the one announced.
C28_BackoffSchedule ==
    /\ Len(sleeps) <= 3
    /\ \A n \in 0..(Len(sleeps) - 1) : sleeps[n + 1] = 1000 * (2 ^ n)
    /\ \A i, j \in DOMAIN sleeps : i < j => sleeps[i] < sleeps[j]
    /\ Sum(sleeps) <= 7000
    /\ Len(sleeps) = retries
    /\ \A i \in DOMAIN sleeps : warnings[i] = sleeps[i]

C28_Witness ==
    /\ ViaRequest /\ sleeps = <<1000, 2000, 4000>> /\ Sum(sleeps) = 7000

\* C29: when a request was retried and failed in the end, the error the
\* caller gets carries a message that discloses the number of attempts: it is
\* more than the message of the last attempt's failure alone.
C29_ErrorDisclosesAttempts ==
    (ViaRequest /\ cpc = "rejected" /\ retries > 0) =>
        err.message # doRequest(opts, response).error.message

----------------------------------------------------------------------------
(* Checkpoint comments and checkpoint lists: formatCheckpointComment,        *)
(* parseCheckpointComment, findCheckpointForStep and findLastCheckpointForJob *)
(* applied to bounded sets of arguments                                      *)

\* the arguments of formatCheckpointComment
Fields(runId, jobKey, stepKey) ==
    [given |-> TRUE, runId |-> runId, jobKey |-> jobKey, stepKey |-> stepKey]
FieldRunIds == {<<"4", "2">>, <<"4", Semi, "2">>, Empty}
FieldJobKeys == {<<"b", "u", "i", "l", "d">>, <<"k", Eq, "v">>, <<"j", "o", "b">>}
FieldStepKeys == {<<"s", "1">>, <<"s", "t", "e", "p">>, <<"a", Semi, "b">>, Empty}
Triples == {Fields(r, j, k) : r \in FieldRunIds, j \in FieldJobKeys, k \in FieldStepKeys}

\* comments a checkpoint may carry: written by the action, by hand, or absent
Comments ==
    {Undefined} \cup
    { Some(<<"g", "h", "r", "u", "n", Eq, "4", "2", Semi, "j", "o", "b", Eq, "b", "u", "i", "l", "d", Semi, "s", "t", "e", "p", Eq, "s", "1">>),
      Some(<<"j", "o", "b", Eq, "b", "u", "i", "l", "d", Semi, "s", "t", "e", "p", Eq, "s", "1", Semi, "g", "h", "r", "u", "n", Eq, "4", "2">>),
      Some(<<"s", "e", "e", " ", "g", "h", "r", "u", "n", Eq, "4", "2", Semi, "j", "o", "b", Eq, "b", "u", "i", "l", "d", Semi, "s", "t", "e", "p", Eq, "s", "1">>),
      Some(<<"g", "h", "r", "u", "n", Eq, "4", "2", Semi, "j", "o", "b", Eq, "b", "u", "i", "l", "d", Semi, "m", "y", "s", "t", "e", "p", Eq, "s", "1">>),
      Some(<<"g", "h", "r", "u", "n", Eq, "4", "2", Semi, "j", "o", "b", Eq, "b", "u", "i", "l", "d", Semi, "s", "t", "e", "p", Eq, "s", "1", Semi, "n", "o", "t", "e", Eq, "x">>),
      Some(<<"g", "h", "r", "u", "n", Eq, "4", "2", Semi, "j", "o", "b", Eq, "b", "u", "i", "l", "d">>),
      Some(<<"j", "o", "b", Eq, "b", "u", "i", "l", "d", Semi, "s", "t", "e", "p", Eq, "s", "1">>),
      Some(<<"g", "h", "r", "u", "n", Eq, "4", "2", Semi, "s", "t", "e", "p", Eq, "s", "1">>),
      Some(<<"g", "h", "r", "u", "n", Eq, Semi, "j", "o", "b", Eq, "b", "u", "i", "l", "d", Semi, "s", "t", "e", "p", Eq, "s", "1">>),
      Some(<<"m", "a", "n", "u", "a", "l", " ", "b", "a", "c", "k", "u", "p">>),
      Some(<<>>) }

\* create_time: an ISO timestamp of day d, hour h of one month;
\* new Date(create_time).getTime() is its number of milliseconds
Time(d, h) == [d |-> d, h |-> h]
GetTime(t) == ((t.d - 1) * 24 + t.h) * 3600000

TimedCp(id, comment, create_time) ==
    [id |-> id, comment |-> comment, create_time |-> create_time]

\* [...checkpoints].sort((a, b) => getTime(b) - getTime(a)): a stable sort,
\* newest first; checkpoints of equal time keep their list order
RECURSIVE InsertByTime(_, _)
InsertByTime(sorted, cp) ==
    IF sorted = <<>> THEN <<cp>>
    ELSE IF GetTime(cp.create_time) - GetTime(sorted[1].create_time) > 0
         THEN <<cp>> \o sorted
         ELSE <<sorted[1]>> \o InsertByTime(Tail(sorted), cp)

RECURSIVE SortNewestFirst(_)
SortNewestFirst(cps) ==
    IF cps = <<>> THEN <<>>
    ELSE InsertByTime(SortNewestFirst(SubSeq(cps, 1, Len(cps) - 1)), cps[Len(cps)])

FindLastInListOrder(cps, runId, jobKey) ==
    LET hits == {i \in DOMAIN cps :
                    LET metadata == parseCheckpointComment(cps[i].comment)
                    IN metadata.ok /\ metadata.runId = runId /\ metadata.jobKey = jobKey}
    IN IF hits = {} THEN NotFound ELSE [found |-> TRUE, id |-> cps[Min(hits)].id]

findLastCheckpointForJob(cps, runId, jobKey) ==
    LET sorted == SortNewestFirst(cps)
        hits == {i \in DOMAIN sorted :
                    LET metadata == parseCheckpointComment(sorted[i].comment)
                    IN metadata.ok /\ metadata.runId = runId /\ metadata.jobKey = jobKey}
    IN IF hits = {} THEN NotFound ELSE [found |-> TRUE, id |-> sorted[Min(hits)].id]

\* a call of parseCheckpointComment: what it returned, or that it threw
Returned(v) == [called |-> TRUE, threw |-> FALSE, value |-> v]
Thrown == [called |-> TRUE, threw |-> TRUE, value |-> Null]

\* comment.match(...) without the !comment test: a TypeError on undefined
ParseWithoutGuard(comment) ==
    IF ~comment.has THEN Thrown ELSE Returned(parseCheckpointComment(comment))

\* every path of parseCheckpointComment ends in a return
CallParse(comment) == Returned(parseCheckpointComment(comment))

\* the checkpoints the lists are made of
Q1 == Fields(<<"4", "2">>, <<"b", "u", "i", "l", "d">>, <<"s", "1">>)
Q2 == Fields(<<"4", "2">>, <<"b", "u", "i", "l", "d">>, <<"s", "2">>)
Q9 == Fields(<<"4", "2">>, <<"b", "u", "i", "l", "d">>, <<"s", "9">>)
CommentOf(q) == Some(formatCheckpointComment(q.runId, q.jobKey, q.stepKey))
OtherRun == Fields(<<"4", "3">>, <<"b", "u", "i", "l", "d">>, <<"s", "1">>)
OtherJob == Fields(<<"4", "2">>, <<"t", "e", "s", "t">>, <<"s", "1">>)
Pools ==
    { {},
      { TimedCp("v1", Undefined, Time(1, 0)), TimedCp("v2", CommentOf(Q1), Time(1, 5)),
        TimedCp("v3", CommentOf(Q2), Time(2, 0)), TimedCp("v4", CommentOf(OtherRun), Time(3, 0)) },
      { TimedCp("v1", CommentOf(Q1), Time(1, 5)), TimedCp("v2", CommentOf(Q1), Time(1, 5)),
        TimedCp("v3", Some(<<"m", "a", "n", "u", "a", "l">>), Time(2, 0)) },
      { TimedCp("v1", CommentOf(OtherRun), Time(1, 0)), TimedCp("v2", CommentOf(OtherJob), Time(1, 1)) },
      { TimedCp("v1", CommentOf(Q1), Time(1, 23)), TimedCp("v2", CommentOf(Q1), Time(2, 0)),
        TimedCp("v3", CommentOf(OtherJob), Time(3, 0)), TimedCp("v4", CommentOf(Q2), Time(1, 0)) } }

\* every order of a pool
Orders(pool) ==
    {l \in [1..Cardinality(pool) -> pool] : \A i, j \in DOMAIN l : i # j => l[i] # l[j]}
Lists == UNION {Orders(pool) : pool \in Pools}
Queries == {Q1, Q2, Q9}

InitCheckpoint ==
    /\ checkpoints = <<>>
    /\ state = [spriteId |-> "gh-sprite", jobKey |-> Empty, runId |-> Empty,
                lastCheckpointId |-> ""]
    /\ runs = 0
    /\ RunIdle
    /\ ClientIdle /\ sprite = FALSE
    /\ RaceIdle
    /\ StreamIdle
    /\ IdentityIdle
    /\ ActionIdle /\ fleet = {}
    /\ RetryIdle
    /\ meta = NotParsed
    /\ answer = NoAnswer
    /\ \/ fields \in Triples /\ cmt = Undefined /\ cpList = <<>> /\ query = NoFields
       \/ fields = NoFields /\ cmt \in Comments /\ cpList = <<>> /\ query = NoFields
       \/ fields = NoFields /\ cmt = Undefined /\ cpList \in Lists /\ query \in Queries

\* formatCheckpointComment(runId, jobKey, stepKey)
Format ==
    /\ fields.given /\ ~cmt.has /\ ~meta.called
    /\ cmt' = Some(formatCheckpointComment(fields.runId, fields.jobKey, fields.stepKey))
    /\ UNCHANGED <<fields, meta, cpList, query, answer>>
    /\ UNCHANGED exceptCheckpoint

\* parseCheckpointComment(cmt)
Parse ==
    /\ ~query.given /\ ~meta.called
    /\ fields.given => cmt.has
    /\ meta' = CallParse(cmt)
    /\ UNCHANGED <<fields, cmt, cpList, query, answer>>
    /\ UNCHANGED exceptCheckpoint

\* findCheckpointForStep(cpList, runId, jobKey, stepKey)
FindForStep ==
    /\ query.given /\ answer.op = "none"
    /\ answer' = [op |-> "step",
                  result |-> findCheckpointForStep(cpList, query.runId, query.jobKey,
                                                   query.stepKey)]
    /\ UNCHANGED <<fields, cmt, meta, cpList, query>>
    /\ UNCHANGED exceptCheckpoint

\* findLastCheckpointForJob(cpList, runId, jobKey)
FindLast ==
    /\ query.given /\ answer.op = "none"
    /\ answer' = [op |-> "last",
                  result |-> findLastCheckpointForJob(cpList, query.runId, query.jobKey)]
    /\ UNCHANGED <<fields, cmt, meta, cpList, query>>
    /\ UNCHANGED exceptCheckpoint

NextCheckpoint ==
    \/ Format
    \/ Parse
    \/ FindForStep
    \/ FindLast

SpecCheckpoint == InitCheckpoint /\ [][NextCheckpoint]_vars

(* Claims about checkpoint comments and lists *)

\* a valid identifier: not empty, free of the delimiters ';' and '='
ValidField(f) == f # Empty /\ Semi \notin Chars(f) /\ Eq \notin Chars(f)

\* C23: round trip: for non-empty runId, jobKey and stepKey that contain
\* neither ';' nor '=', parsing the formatted comment gives back exactly
\* the three values.
C23_RoundTrip ==
    (/\ fields.given /\ cmt.has /\ meta.called
     /\ ValidField(fields.runId) /\ ValidField(fields.jobKey) /\ ValidField(fields.stepKey))
        => /\ ~meta.threw
           /\ meta.value = [ok |-> TRUE, runId |-> fields.runId, jobKey |-> fields.jobKey,
                            stepKey |-> fields.stepKey]

C23_Witness ==
    /\ fields.given /\ cmt.has /\ meta.called /\ meta.value.ok
    /\ ValidField(fields.runId) /\ ValidField(fields.jobKey) /\ ValidField(fields.stepKey)

\* the pieces of a text between its ';'
RECURSIVE SplitOnSemi(_)
SplitOnSemi(s) ==
    LET stops == {i \in DOMAIN s : s[i] = Semi}
    IN IF stops = {} THEN <<s>>
       ELSE <<SubSeq(s, 1, Min(stops) - 1)>> \o SplitOnSemi(SubSeq(s, Min(stops) + 1, Len(s)))

StartsWith(s, key) == Len(s) > Len(key) /\ SubSeq(s, 1, Len(key)) = key

\* of the form ghrun=<runId>;job=<jobKey>;step=<stepKey>
InGrammar(s) ==
    LET piece == SplitOnSemi(s)
    IN /\ Len(piece) = 3
       /\ StartsWith(piece[1], ghrunEq)
       /\ StartsWith(piece[2], jobEq)
       /\ StartsWith(piece[3], stepEq)

\* C24: parseCheckpointComment returns null for every string that is not of
\* the form ghrun=<runId>;job=<jobKey>;step=<stepKey>: fields in another
\* order, text before ghrun=, a key that is the end of a longer word.
C24_ParsesExactGrammar ==
    (meta.called /\ cmt.has /\ ~InGrammar(cmt.text)) => meta.value = Null

Occurs(key, s) ==
    \E i \in 1..Len(s) : i + Len(key) - 1 <= Len(s) /\ SubSeq(s, i, i + Len(key) - 1) = key

\* C25: parseCheckpointComment never throws, and returns null for undefined,
\* for the empty string and for a text in which one of ghrun=, job=, step=
\* does not occur (a missing field, unrelated text).
C25_ParseNeverThrows ==
    meta.called =>
        /\ ~meta.threw
        /\ (\/ ~cmt.has
            \/ cmt.text = Empty
            \/ ~Occurs(ghrunEq, cmt.text)
            \/ ~Occurs(jobEq, cmt.text)
            \/ ~Occurs(stepEq, cmt.text)) => meta.value = Null

C25_Witness ==
    /\ meta.called /\ ~fields.given /\ ~cmt.has /\ meta.value = Null

\* the places of cpList whose parsed comment is the looked-for run and job
MatchesJob(cp) ==
    LET m == parseCheckpointComment(cp.comment)
    IN m.ok /\ m.runId = query.runId /\ m.jobKey = query.jobKey
StepHits == {i \in DOMAIN cpList : MatchesJob(cpList[i])
                /\ parseCheckpointComment(cpList[i].comment).stepKey = query.stepKey}
JobHits == {i \in DOMAIN cpList : MatchesJob(cpList[i])}

\* C26: findCheckpointForStep returns the id of the first checkpoint, in list
\* order, whose parsed comment equals runId, jobKey and stepKey; checkpoints
\* with no comment or an unparsable one are passed over; with no such
\* checkpoint (the same job and step under another run id included) it
\* returns null.
C26_FirstMatchInListOrder ==
    answer.op = "step" =>
        IF StepHits = {} THEN answer.result = NotFound
        ELSE /\ answer.result = [found |-> TRUE, id |-> cpList[Min(StepHits)].id]
             /\ \A j \in 1..(Min(StepHits) - 1) : j \notin StepHits

C26_Witness ==
    /\ answer.op = "step" /\ answer.result.found
    /\ Cardinality(StepHits) > 1
    /\ cpList[Min(StepHits)].id # cpList[Max(StepHits)].id
    /\ Min(StepHits) > 1

\* C27: findLastCheckpointForJob returns the id of the checkpoint of maximum
\* creation time among those whose comment parses to runId and jobKey,
\* whatever the order of the list and whatever newer checkpoints of other
\* runs or jobs it holds, and null when no checkpoint matches.
C27_NewestMatchOfJob ==
    answer.op = "last" =>
        IF JobHits = {} THEN answer.result = NotFound
        ELSE /\ answer.result.found
             /\ \E i \in JobHits :
                   /\ cpList[i].id = answer.result.id
                   /\ \A j \in JobHits :
                         GetTime(cpList[j].create_time) <= GetTime(cpList[i].create_time)
             /\ \A l \in Orders(Range(cpList)) :
                   LET again == findLastCheckpointForJob(l, query.runId, query.jobKey)
                   IN /\ again.found
                      /\ \E i \in JobHits :
                            /\ cpList[i].id = again.id
                            /\ GetTime(cpList[i].create_time)
                                 = Max({GetTime(cpList[j].create_time) : j \in JobHits})

C27_Witness ==
    /\ answer.op = "last" /\ answer.result.found
    /\ Cardinality(JobHits) > 1
    /\ answer.result.id # cpList[Min(JobHits)].id
    /\ \E k \in DOMAIN cpList :
          /\ k \notin JobHits
          /\ \A j \in JobHits : GetTime(cpList[k].create_time) > GetTime(cpList[j].create_time)

\* C21: the derived name is never longer than 128 characters; a joined name
\* longer than 128 becomes its first 119 characters, a hyphen and the 8
\* lowercase hex characters of the digest of the whole joined name; a joined
\* name of at most 128 characters is returned unchanged.
C21_NameBoundedByTruncation ==
    derived.done =>
        LET full == UntruncatedName(ctx)
        IN /\ Len(derived.name) <= 128
           /\ IF Len(full) > 128
              THEN /\ Len(derived.name) = 128
                   /\ SubSeq(derived.name, 1, 119) = SubSeq(full, 1, 119)
                   /\ derived.name[120] = "-"
                   /\ SubSeq(derived.name, 121, 128) = shortHash(full)
                   /\ \A i \in 121..128 : derived.name[i] \in Range(HexDigits)
              ELSE derived.name = full

C21_Witness ==
    /\ derived.done
    /\ Len(UntruncatedName(ctx)) > 128
    /\ derived.name # UntruncatedName(ctx)

----------------------------------------------------------------------------
(* The init action (src/src/init/index.ts) and the cleanup action           *)
(* (src/src/cleanup/index.ts): one invocation at a time, before the job's   *)
(* first step                                                                *)

\* what a client method rejects with: an ApiError built by doRequest (a plain
\* object) or the Error of the response stream
ApiError(status) == [instance |-> FALSE, status |-> status, message |-> ApiErrorMessage]
StreamError == [instance |-> TRUE, status |-> 0, message |-> "message of the Error"]
Failures == {ApiError(500), ApiError(404), StreamError}

\* init's catch: setFailed(error.message) for an Error, else the fixed text
InitCatchMessage(e) == IF e.instance THEN e.message ELSE UnknownError

\* cleanup's catch: error.message for an Error, String(error.message) for an
\* object with a message
CleanupCatchMessage(e) == e.message

\* github.context of the job
JobContext ==
    [owner |-> <<"A", "c", "m", "e">>, repo |-> <<"R", "e", "p", "o", ".", "j", "s">>, workflow |-> <<"C", "I", " ", "B", "u", "i", "l", "d">>, runId |-> <<"4", "2">>, job |-> <<"b", "u", "i", "l", "d">>,
     matrix |-> NoMatrix, runAttempt |-> 1]

\* JSON.parse(inputs.matrixJson), undefined when the input is empty or no JSON
MatrixJsons == {"", "{\"os\":\"linux\"}", "{os"}
ParseMatrix(json) ==
    IF json = "{\"os\":\"linux\"}" THEN Matrix(<<Prop(<<"o", "s">>, Str(<<"l", "i", "n", "u", "x">>))>>) ELSE NoMatrix
MatrixParses(json) == json \in {"{\"os\":\"linux\"}"}

buildGitHubContext(i) ==
    [JobContext EXCEPT !.matrix = IF TruthyId(i.matrixJson) THEN ParseMatrix(i.matrixJson)
                                  ELSE NoMatrix]

InitInputs ==
    [token : Tokens, envToken : EnvTokens, jobKey : {Empty, <<"b", "u", "i", "l", "d">>}, matrixJson : MatrixJsons]

\* listCheckpoints results the init action may get
InitListings == {l \in Lists : Len(l) \in {0, 3}}

\* the sprites of the account: created_at as a time of the month
SPRITE_KIT_PREFIX == <<"g", "h", "-">>
SpriteOf(name, id, created_at) == [name |-> name, id |-> id, created_at |-> created_at]
Now == Time(10, 12)
Fleet ==
    { SpriteOf(<<"g", "h", "-", "o", "l", "d">>, "id-old", Time(2, 0)),
      SpriteOf(<<"g", "h", "-", "e", "d", "g", "e">>, "id-edge", Time(7, 12)),
      SpriteOf(<<"g", "h", "-", "n", "e", "w">>, "id-new", Time(9, 0)),
      SpriteOf(<<"m", "a", "n", "u", "a", "l">>, "id-manual", Time(1, 0)) }
NamesAsked == {Empty, <<"g", "h", "-", "o", "l", "d">>, <<"m", "a", "n", "u", "a", "l">>, <<"g", "h", "-", "g", "o", "n", "e">>}
CleanupInputs ==
    [spriteName : NamesAsked, maxAgeDays : {1, 3}, dryRun : BOOLEAN,
     token : Tokens, envToken : EnvTokens]

IsAnySprite(sp) == TRUE

\* sprite.name.startsWith(SPRITE_KIT_PREFIX)
isSpriteKitSprite(sp) ==
    /\ Len(sp.name) >= Len(SPRITE_KIT_PREFIX)
    /\ SubSeq(sp.name, 1, Len(SPRITE_KIT_PREFIX)) = SPRITE_KIT_PREFIX

\* createdAt < cutoffDate, the cutoff being `days` days before now
isSpriteOlderThan(sp, days) ==
    GetTime(sp.created_at) < GetTime(Now) - days * 24 * 3600000

Req(o, name) == [op |-> o, name |-> name]

InitActions ==
    /\ checkpoints \in InitialLists
    /\ state \in [spriteId : StateSpriteIds, jobKey : StateJobKeys,
                  runId : StateRunIds, lastCheckpointId : {""}]
    /\ runs = 0
    /\ RunIdle
    /\ ClientIdle /\ sprite = FALSE
    /\ RaceIdle
    /\ StreamIdle
    /\ IdentityIdle
    /\ CheckpointIdle
    /\ ActionIdle
    /\ fleet = Fleet
    /\ RetryIdle

\* the catch block of init's and cleanup's run()
Throw(message) ==
    /\ setFailed' = [called |-> TRUE, message |-> message]
    /\ step' = "done"

\* init: getInputs, the token check, the identity, the client
InitStart ==
    /\ action = "none" /\ pc = "idle" /\ runs = 0
    /\ action' = "init"
    /\ \E i \in InitInputs :
        LET inputs_ == [token |-> OrElseId(i.token, i.envToken), jobKey |-> i.jobKey,
                        matrixJson |-> i.matrixJson]
            githubContext == buildGitHubContext(inputs_)
        IN /\ actionInputs' = i
           /\ IF ~TruthyId(inputs_.token)
              THEN /\ Throw(TokenRequired)
                   /\ UNCHANGED <<locals, hasClient, actionWarnings>>
              ELSE /\ locals' = [set |-> TRUE,
                                 spriteName |-> deriveSpriteNameFromContext(githubContext),
                                 jobKey |-> OrElse(inputs_.jobKey, deriveJobKey(githubContext)),
                                 runId |-> githubContext.runId,
                                 spriteId |-> ""]
                   /\ actionWarnings' =
                         IF TruthyId(i.matrixJson) /\ ~MatrixParses(i.matrixJson) THEN 1 ELSE 0
                   /\ hasClient' = TRUE
                   /\ step' = "createOrGetSprite"
                   /\ UNCHANGED setFailed
    /\ UNCHANGED <<requests, emitted, fleet>>
    /\ UNCHANGED exceptAction

\* await client.createOrGetSprite({ name: spriteName })
InitCreateOrGetSprite ==
    /\ action = "init" /\ step = "createOrGetSprite"
    /\ requests' = Append(requests, Req("createOrGetSprite", locals.spriteName))
    /\ \/ /\ locals' = [locals EXCEPT !.spriteId = "sprite-1"]
          /\ step' = "listCheckpoints"
          /\ UNCHANGED setFailed
       \/ \E e \in Failures \ {ApiError(404)} :
             Throw(InitCatchMessage(e)) /\ UNCHANGED locals
    /\ UNCHANGED <<action, actionInputs, hasClient, emitted, actionWarnings, fleet>>
    /\ UNCHANGED exceptAction

\* await client.listCheckpoints(sprite.id), then the outputs and the saved state
InitListCheckpoints ==
    /\ action = "init" /\ step = "listCheckpoints"
    /\ requests' = Append(requests, Req("listCheckpoints", locals.spriteName))
    /\ \/ \E listing \in InitListings :
             LET last == findLastCheckpointForJob(listing, locals.runId, locals.jobKey)
                 lastCheckpointId == IF last.found THEN last.id ELSE ""
                 needsRestore == last.found /\ Len(listing) > 0
             IN /\ emitted' = [set |-> TRUE,
                               outputs |-> [spriteName |-> locals.spriteName,
                                            spriteId |-> locals.spriteId,
                                            jobKey |-> locals.jobKey,
                                            runId |-> locals.runId,
                                            lastCheckpointId |-> lastCheckpointId,
                                            needsRestore |-> BoolStr(needsRestore)],
                               saved |-> [spriteId |-> locals.spriteId,
                                          jobKey |-> locals.jobKey,
                                          runId |-> locals.runId,
                                          lastCheckpointId |-> lastCheckpointId]]
                /\ step' = "done"
                /\ UNCHANGED setFailed
       \/ \E e \in Failures :
             Throw(InitCatchMessage(e)) /\ UNCHANGED emitted
    /\ UNCHANGED <<action, actionInputs, locals, hasClient, actionWarnings, fleet>>
    /\ UNCHANGED exceptAction

\* cleanup: getInputs, the token check, the client
CleanupStart ==
    /\ action = "none" /\ pc = "idle" /\ runs = 0
    /\ action' = "cleanup"
    /\ \E i \in CleanupInputs :
        /\ actionInputs' = i
        /\ IF ~TruthyId(OrElseId(i.token, i.envToken))
           THEN /\ Throw(TokenRequired)
                /\ UNCHANGED hasClient
           ELSE /\ hasClient' = TRUE
                /\ step' = IF Truthy(i.spriteName) THEN "deleteSpecificSprite"
                           ELSE "deleteOldSprites"
                /\ UNCHANGED setFailed
    /\ UNCHANGED <<locals, requests, emitted, actionWarnings, fleet>>
    /\ UNCHANGED exceptAction

\* the outputs of the cleanup action
CleanupOutputs(deletedIds) ==
    [set |-> TRUE, outputs |-> [deletedCount |-> NumStr(Len(deletedIds)),
                                deletedSprites |-> deletedIds]]

Named(name) == {sp \in fleet : sp.name = name}

DryRunIgnored(i) == FALSE

\* inputs.dryRun, as run() passes it to deleteSpecificSprite and deleteOldSprites
DryRun(i) == i.dryRun

\* deleteSpecificSprite(client, inputs.spriteName, inputs.dryRun)
DeleteSpecificSprite ==
    /\ action = "cleanup" /\ step = "deleteSpecificSprite"
    /\ LET spriteName == actionInputs.spriteName
           get == Req("getSprite", spriteName)
           del == Req("deleteSprite", spriteName)
       IN \/ \* getSprite rejects: 404 gives [], any other error is thrown
             \E e \in Failures :
                /\ e.status = 404 <=> Named(spriteName) = {}
                /\ requests' = <<get>>
                /\ IF e.status = 404
                   THEN /\ emitted' = CleanupOutputs(<<>>)
                        /\ step' = "done"
                        /\ UNCHANGED setFailed
                   ELSE /\ Throw(CleanupCatchMessage(e))
                        /\ UNCHANGED emitted
                /\ UNCHANGED <<actionWarnings, fleet>>
          \/ \E sp \in Named(spriteName) :
                IF ~isSpriteKitSprite(sp)
                THEN /\ requests' = <<get>>
                     /\ actionWarnings' = actionWarnings + 1
                     /\ emitted' = CleanupOutputs(<<>>)
                     /\ step' = "done"
                     /\ UNCHANGED <<setFailed, fleet>>
                ELSE IF DryRun(actionInputs)
                THEN /\ requests' = <<get>>
                     /\ emitted' = CleanupOutputs(<<spriteName>>)
                     /\ step' = "done"
                     /\ UNCHANGED <<setFailed, fleet, actionWarnings>>
                ELSE /\ requests' = <<get, del>>
                     /\ UNCHANGED actionWarnings
                     /\ \/ /\ fleet' = fleet \ {sp}
                           /\ emitted' = CleanupOutputs(<<spriteName>>)
                           /\ step' = "done"
                           /\ UNCHANGED setFailed
                        \/ \* deleted by someone else in between: 404
                           /\ fleet' = fleet \ {sp}
                           /\ emitted' = CleanupOutputs(<<>>)
                           /\ step' = "done"
                           /\ UNCHANGED setFailed
                        \/ \E e \in Failures \ {ApiError(404)} :
                              /\ Throw(CleanupCatchMessage(e))
                              /\ UNCHANGED <<emitted, fleet>>
    /\ UNCHANGED <<action, actionInputs, locals, hasClient>>
    /\ UNCHANGED exceptAction

\* the sprites in the order the server lists them: by creation time
RECURSIVE ByCreation(_)
ByCreation(S) ==
    IF S = {} THEN <<>>
    ELSE LET first == CHOOSE sp \in S :
                         \A o \in S : GetTime(sp.created_at) <= GetTime(o.created_at)
         IN <<first>> \o ByCreation(S \ {first})

\* the sprites of the account whose name has the prefix, in the server's order
Matching(prefix) ==
    SelectSeq(ByCreation(fleet),
              LAMBDA sp : Len(sp.name) >= Len(prefix) /\ SubSeq(sp.name, 1, Len(prefix)) = prefix)

\* the largest number of sprites the server puts in one response (max_results)
PageSize == 2

\* GET /v1/sprites?prefix=...&continuation_token=...: the page of the listing
\* that starts after the first `skip` matching sprites
ServerPage(prefix, skip) ==
    LET all == Matching(prefix)
        last == IF skip + PageSize < Len(all) THEN skip + PageSize ELSE Len(all)
    IN [sprites |-> SubSeq(all, skip + 1, last),
        has_more |-> last < Len(all),
        next_continuation_token |-> last]

\* client.listSprites(namePrefix): GET /sprites?prefix=..., no continuation token
ListSprites(prefix) == ServerPage(prefix, 0)

\* deleteOldSprites(client, inputs.maxAgeDays, inputs.dryRun)
DeleteOldSprites ==
    /\ action = "cleanup" /\ step = "deleteOldSprites"
    /\ LET list == Req("listSprites", SPRITE_KIT_PREFIX)
       IN \/ \E e \in Failures \ {ApiError(404)} :
                /\ requests' = <<list>>
                /\ Throw(CleanupCatchMessage(e))
                /\ UNCHANGED <<emitted, actionWarnings, fleet>>
          \/ LET entries == ListSprites(SPRITE_KIT_PREFIX).sprites
             IN \E getFailed, deleteFailed \in SUBSET Range(entries) :
                  LET fetched == SelectSeq(entries, LAMBDA sp : sp \notin getFailed)
                      spriteKitSprites == SelectSeq(fetched, isSpriteKitSprite)
                      oldSprites ==
                          SelectSeq(spriteKitSprites,
                                    LAMBDA sp : isSpriteOlderThan(sp, actionInputs.maxAgeDays))
                      deleted ==
                          IF DryRun(actionInputs) THEN oldSprites
                          ELSE SelectSeq(oldSprites, LAMBDA sp : sp \notin deleteFailed)
                      getCalls == [k \in DOMAIN entries |-> Req("getSprite", entries[k].name)]
                      deleteCalls == IF DryRun(actionInputs) THEN <<>>
                              ELSE [k \in DOMAIN oldSprites |->
                                        Req("deleteSprite", oldSprites[k].name)]
                  IN /\ deleteFailed \subseteq Range(oldSprites)
                     /\ DryRun(actionInputs) => deleteFailed = {}
                     /\ requests' = <<list>> \o getCalls \o deleteCalls
                     /\ actionWarnings' = actionWarnings + Cardinality(getFailed)
                                              + Cardinality(deleteFailed)
                     /\ fleet' = IF DryRun(actionInputs) THEN fleet
                                 ELSE fleet \ Range(deleted)
                     /\ emitted' = CleanupOutputs([k \in DOMAIN deleted |-> deleted[k].id])
                     /\ step' = "done"
                     /\ UNCHANGED setFailed
    /\ UNCHANGED <<action, actionInputs, locals, hasClient>>
    /\ UNCHANGED exceptAction

\* the process of the action ends
ActionReturn ==
    /\ action # "none" /\ step = "done"
    /\ action' = "none" /\ step' = "idle" /\ actionInputs' = NoActionInputs
    /\ locals' = NoLocals /\ hasClient' = FALSE /\ requests' = <<>>
    /\ emitted' = NoEmitted /\ setFailed' = NotFailed /\ actionWarnings' = 0
    /\ UNCHANGED fleet
    /\ UNCHANGED exceptAction

NextActions ==
    \/ NextRun
    \/ InitStart
    \/ InitCreateOrGetSprite
    \/ InitListCheckpoints
    \/ CleanupStart
    \/ DeleteSpecificSprite
    \/ DeleteOldSprites
    \/ ActionReturn

SpecActions == InitActions /\ [][NextActions]_vars

----------------------------------------------------------------------------
(* Claims about the three actions *)

\* neither the token input nor SPRITES_TOKEN is set
NoToken(i) == ~TruthyId(i.token) /\ ~TruthyId(i.envToken)

RunEnded == pc = "done"
ActionEnded == action \in {"init", "cleanup"} /\ step = "done"

\* the run action made no client and no request
RunMadeNoRequest == ~constructed /\ calls = NoCalls
ActionMadeNoRequest == ~hasClient /\ requests = <<>>

\* C30 as stated: with no token, each of the init, run and cleanup actions
\* calls setFailed with the 'Sprites token is required' message, without
\* constructing a client and without any API request.
C30_MissingTokenFailsFast ==
    /\ (RunEnded /\ NoToken(given)) =>
          /\ failed /\ failure = TokenRequired
          /\ RunMadeNoRequest
    /\ (ActionEnded /\ NoToken(actionInputs)) =>
          /\ setFailed = [called |-> TRUE, message |-> TokenRequired]
          /\ ActionMadeNoRequest

\* C30, amended: with no token every action fails before it constructs a
\* client or issues a request; init and cleanup report 'Sprites token is
\* required', and so does the run action when its required inputs step-key
\* and run are supplied; when one of them is missing the run action reports
\* that input instead.
C30_MissingTokenFailsFastAfterRequiredInputs ==
    /\ (RunEnded /\ NoToken(given)) =>
          /\ failed /\ RunMadeNoRequest
          /\ failure = IF ~Truthy(given.stepKey) THEN "Input required and not supplied: step-key"
                       ELSE IF ~TruthyId(given.run) THEN "Input required and not supplied: run"
                       ELSE TokenRequired
    /\ (ActionEnded /\ NoToken(actionInputs)) =>
          /\ setFailed = [called |-> TRUE, message |-> TokenRequired]
          /\ ActionMadeNoRequest

C30_Witness ==
    /\ RunEnded /\ NoToken(given) /\ Truthy(given.stepKey) /\ TruthyId(given.run)
    /\ failed /\ failure = TokenRequired /\ RunMadeNoRequest

----------------------------------------------------------------------------
(* Further claims about the run action: maybeRestore, outputs, saved state *)

\* the checkpoint getCheckpoint resolves with has metadata of the current
\* runId and jobKey
FetchedMatches ==
    LET fetched == CheckpointById(inputs.lastCheckpointId)
        metadata == parseCheckpointComment(fetched.cp.comment)
    IN /\ fetched.found
       /\ metadata.ok /\ metadata.runId = inputs.runId /\ metadata.jobKey = inputs.jobKey

\* a step in which restoreCheckpoint is called, and what holds of it
RestoreCalledOnlyWhenMatching ==
    (calls'.restore > calls.restore) =>
        /\ TruthyId(inputs.lastCheckpointId)
        /\ calls.getOutcome = "ok" /\ FetchedMatches
        /\ calls.exec = 0

\* exec starts only when maybeRestore has returned
ExecAfterRestoreSettled ==
    (calls'.exec > calls.exec) =>
        /\ pc = "exec"
        /\ calls.restore > 0 => calls.restoreOutcome \in {"ok", "rejected"}

\* maybeRestore returns without having called restoreCheckpoint
ReturnsWithoutRestoring == pc = "maybeRestore" /\ pc' = "exec"

\* C31 as stated: maybeRestore calls restoreCheckpoint only when
\* lastCheckpointId is non-empty and the fetched checkpoint's metadata has
\* the current runId and jobKey; in every other case it warns and returns
\* false without restoring; restoreCheckpoint has settled before exec starts.
C31_RestoreOnlyWhenMatchingElseWarn ==
    [][/\ RestoreCalledOnlyWhenMatching
       /\ ExecAfterRestoreSettled
       /\ ReturnsWithoutRestoring =>
             /\ warned' = warned + 1
             /\ ~restored' /\ calls'.restore = 0]_vars

\* C31, amended: the same, except that with an empty lastCheckpointId
\* maybeRestore returns false without a warning and without any request; the
\* warning is logged when getCheckpoint's checkpoint does not match (or
\* getCheckpoint rejects).
C31_RestoreOnlyWhenMatching ==
    [][/\ RestoreCalledOnlyWhenMatching
       /\ ExecAfterRestoreSettled
       /\ ReturnsWithoutRestoring =>
             /\ ~restored' /\ calls'.restore = 0
             /\ IF TruthyId(inputs.lastCheckpointId)
                THEN warned' = warned + 1 /\ calls'.get = 1
                ELSE warned' = warned /\ calls' = calls]_vars

C31_Witness ==
    /\ calls.restore = 1 /\ calls.restoreOutcome = "ok" /\ restored
    /\ FetchedMatches /\ calls.exec = 1

C31_WitnessMismatch ==
    /\ calls.getOutcome = "ok" /\ ~FetchedMatches /\ calls.restore = 0
    /\ warned = 1 /\ ~restored /\ calls.exec = 1

C31_WitnessNoLastCheckpoint ==
    /\ pc = "exec" /\ ~TruthyId(inputs.lastCheckpointId)
    /\ warned = 0 /\ calls.get = 0

\* getCheckpoint or restoreCheckpoint rejected inside maybeRestore
RestoreFailed == calls.getOutcome = "rejected" \/ calls.restoreOutcome = "rejected"

\* the failures the run action does propagate after maybeRestore
ExecOrCreateFailed ==
    \/ calls.execOutcome \in {"nonzero", "rejected"}
    \/ calls.create = 1 /\ checkpointId = ""

\* C32: when getCheckpoint or restoreCheckpoint rejects inside maybeRestore,
\* the rejection is not propagated: one warning is logged, maybeRestore
\* returns false, the run action goes on to exec, it does not end without
\* having called exec, setFailed is called only if exec or createCheckpoint
\* fails, and when exec exits with 0 createCheckpoint is called and the
\* outputs of the created checkpoint carry restored=false.
C32_RestoreFailureNotPropagated ==
    RestoreFailed =>
        /\ warned = 1 /\ ~restored
        /\ pc \in {"exec", "createCheckpoint", "done"}
        /\ pc = "done" => calls.exec = 1
        /\ failed => ExecOrCreateFailed
        /\ (pc = "done" /\ calls.execOutcome = "zero") =>
              /\ calls.create = 1
              /\ outputs.set /\ outputs.restored = "false"
              /\ ~failed =>
                    /\ checkpoints[Len(checkpoints)].by = ByRun(inputs)
                    /\ outputs = Outputs("false", checkpoints[Len(checkpoints)].id,
                                         "false", "0")

C32_Witness ==
    /\ calls.restoreOutcome = "rejected" /\ warned = 1
    /\ pc = "done" /\ ~failed /\ calls.exec = 1 /\ calls.create = 1
    /\ outputs.restored = "false" /\ outputs.checkpointId = checkpointId
    /\ checkpoints[Len(checkpoints)].id = checkpointId

C32_WitnessGetRejected ==
    /\ calls.getOutcome = "rejected" /\ calls.restore = 0 /\ warned = 1
    /\ pc = "done" /\ ~failed /\ calls.create = 1 /\ outputs.restored = "false"

\* the terminating paths of run() that are failures: input validation,
\* a rejected listCheckpoints, exec or createCheckpoint, a non-zero exit code
InputValidationFailed == ~constructed
ApiFailed ==
    \/ calls.list = 1 /\ ~calls.listOk
    \/ calls.execOutcome = "rejected"
    \/ calls.create = 1 /\ checkpointId = ""
NonZeroExit == calls.execOutcome = "nonzero"
FailurePath == InputValidationFailed \/ ApiFailed \/ NonZeroExit

\* C33: whenever the run action has terminated, the four outputs skipped,
\* checkpoint-id, restored and exit-code are set (to the values of the
\* locals), and setFailed has been called if and only if the path is a
\* failure; setFailed is not called before the action terminates.
C33_OutputsOnEveryPath ==
    /\ pc = "done" =>
          /\ outputs.set
          /\ outputs = Outputs(BoolStr(skipped), checkpointId, BoolStr(restored),
                               NumStr(exitCode))
          /\ failed <=> FailurePath
          /\ failed <=> failure # ""
    /\ pc # "done" => ~failed /\ ~outputs.set

C33_Witness ==
    /\ pc = "done" /\ NonZeroExit /\ failed /\ failure = "Command exited with code 1"
    /\ outputs = Outputs("false", "", BoolStr(restored), "1")

C33_WitnessSkip == pc = "done" /\ skipped /\ ~failed /\ outputs.skipped = "true"

C33_WitnessSuccess ==
    pc = "done" /\ calls.create = 1 /\ ~failed /\ outputs.exitCode = "0"
    /\ outputs.checkpointId # ""

C33_WitnessApiFailure ==
    pc = "done" /\ calls.create = 1 /\ failed /\ outputs.set /\ outputs.checkpointId = ""

C33_WitnessInputs == pc = "done" /\ InputValidationFailed /\ failed /\ outputs.set

\* a step in which createCheckpoint resolves with the new checkpoint
CreateSucceeds ==
    /\ pc = "createCheckpoint" /\ calls'.create = calls.create + 1
    /\ Len(checkpoints') = Len(checkpoints) + 1

\* a step in which the run action ends on the skip path or on a failure path
EndsSkippedOrFailed == pc # "done" /\ pc' = "done" /\ (skipped' \/ failed')

\* C34: the saved state 'last-checkpoint-id' changes only in a step in which
\* createCheckpoint succeeded, it then equals the id of the checkpoint just
\* created, and a run action that ends on the skip path or on a failure path
\* leaves the saved state as it was.
C34_StateSavedOnlyAfterCreate ==
    [][/\ state' # state => CreateSucceeds
       /\ CreateSucceeds =>
             /\ state' = [state EXCEPT
                            !.lastCheckpointId = checkpoints'[Len(checkpoints')].id]
             /\ state'.lastCheckpointId \notin {checkpoints[i].id : i \in DOMAIN checkpoints}
             /\ ~failed' /\ ~skipped'
       /\ EndsSkippedOrFailed => state' = state]_vars

C34_Witness ==
    /\ pc = "done" /\ calls.create = 1 /\ ~failed /\ runs = 2
    /\ state.lastCheckpointId = checkpoints[Len(checkpoints)].id
    /\ state.lastCheckpointId = checkpointId

C34_WitnessSkipKeepsState ==
    /\ pc = "done" /\ skipped /\ state.lastCheckpointId # ""
    /\ state.lastCheckpointId # checkpointId

C34_WitnessFailureKeepsState ==
    pc = "done" /\ failed /\ calls.create = 1 /\ state.lastCheckpointId # ""

----------------------------------------------------------------------------
(* Claims about the cleanup action *)

BatchEnded ==
    /\ action = "cleanup" /\ step = "done" /\ hasClient
    /\ ~Truthy(actionInputs.spriteName)

Requested(o, name) == \E k \in DOMAIN requests : requests[k] = Req(o, name)
ListRequests == {k \in DOMAIN requests : requests[k].op = "listSprites"}

\* the number of pages the server divides the listing of a prefix into
PagesOf(prefix) ==
    IF Len(Matching(prefix)) = 0 THEN 1
    ELSE (Len(Matching(prefix)) + PageSize - 1) \div PageSize

\* C35: a batch cleanup whose listing succeeded has requested every page of
\* the listing (one listSprites request per page, until has_more is false),
\* and every sprite with the prefix, on whichever page the server returns it,
\* has been considered for deletion: its details were requested.  (Batch
\* cleanup only removes sprites, so a prefixed sprite of the account after
\* the cleanup was also one when the listing was made.)
C35_ListingEnumeratedToCompletion ==
    (BatchEnded /\ emitted.set) =>
        /\ Cardinality(ListRequests) = PagesOf(SPRITE_KIT_PREFIX)
        /\ \A sp \in fleet : isSpriteKitSprite(sp) => Requested("getSprite", sp.name)

\* the name begins with the three characters g, h, -
HasGhPrefix(name) == Len(name) >= 3 /\ <<name[1], name[2], name[3]>> = <<"g", "h", "-">>

DeleteRequests == {k \in DOMAIN requests : requests[k].op = "deleteSprite"}
SpriteNamed(name) == CHOOSE sp \in Fleet : sp.name = name

\* created more than `days` days before now
StrictlyOlder(sp, days) ==
    (GetTime(Now) - GetTime(sp.created_at)) > days * 24 * 3600000

SpecificEnded ==
    /\ action = "cleanup" /\ step = "done" /\ hasClient
    /\ Truthy(actionInputs.spriteName)

\* C36: every deleteSprite request of the cleanup action names a sprite whose
\* name starts with 'gh-', and in batch mode a sprite created strictly more
\* than max-age-days days ago; a specific-sprite cleanup of a sprite without
\* the prefix makes no deleteSprite request, warns, and reports
\* deleted-count 0; a sprite without the prefix never leaves the account.
C36_OnlyOldSpriteKitSpritesDeleted ==
    /\ action = "cleanup" =>
          \A k \in DeleteRequests :
              /\ HasGhPrefix(requests[k].name)
              /\ ~Truthy(actionInputs.spriteName) =>
                    StrictlyOlder(SpriteNamed(requests[k].name), actionInputs.maxAgeDays)
    /\ (SpecificEnded /\ ~HasGhPrefix(actionInputs.spriteName) /\ emitted.set) =>
          /\ DeleteRequests = {}
          /\ Named(actionInputs.spriteName) # {} => actionWarnings = 1
          /\ emitted.outputs.deletedCount = "0"
    /\ \A sp \in Fleet : ~HasGhPrefix(sp.name) => sp \in fleet

C36_Witness ==
    /\ BatchEnded /\ ~actionInputs.dryRun /\ actionInputs.maxAgeDays = 3
    /\ Requested("deleteSprite", <<"g", "h", "-", "o", "l", "d">>)
    /\ Requested("getSprite", <<"g", "h", "-", "e", "d", "g", "e">>)
    /\ ~Requested("deleteSprite", <<"g", "h", "-", "e", "d", "g", "e">>)
    /\ Cardinality(DeleteRequests) = 1

C36_WitnessSpecific ==
    /\ SpecificEnded /\ ~actionInputs.dryRun
    /\ actionInputs.spriteName = <<"m", "a", "n", "u", "a", "l">>
    /\ Requested("getSprite", actionInputs.spriteName)
    /\ actionWarnings = 1 /\ emitted.set /\ emitted.outputs.deletedCount = "0"

\* the sprites a batch cleanup lists (the first page) that it would delete
OldListed ==
    {sp \in Range(ServerPage(<<"g", "h", "-">>, 0).sprites) :
        StrictlyOlder(sp, actionInputs.maxAgeDays)}

DryRunEnded ==
    /\ action = "cleanup" /\ step = "done" /\ emitted.set /\ actionInputs.dryRun

\* C37: with dry-run enabled the cleanup action makes no deleteSprite request,
\* in specific-sprite mode and in batch mode, and no sprite leaves the
\* account; deleted-count is the number of sprites a cleanup without dry-run
\* would have asked the server to delete: 1 for an existing specific sprite
\* with the prefix (0 otherwise), and in batch mode the number of listed
\* sprites older than max-age-days whose details could be fetched.
C37_DryRunDeletesNothing ==
    /\ [](action = "cleanup" /\ actionInputs.dryRun => DeleteRequests = {})
    /\ [][(action' = "cleanup" /\ actionInputs'.dryRun) => fleet' = fleet]_vars
    /\ []((DryRunEnded /\ Truthy(actionInputs.spriteName)) =>
            emitted.outputs =
                IF Named(actionInputs.spriteName) # {} /\ HasGhPrefix(actionInputs.spriteName)
                THEN [deletedCount |-> "1", deletedSprites |-> <<actionInputs.spriteName>>]
                ELSE [deletedCount |-> "0", deletedSprites |-> <<>>])
    /\ []((DryRunEnded /\ ~Truthy(actionInputs.spriteName)) =>
            /\ emitted.outputs.deletedCount =
                   NumStr(Len(emitted.outputs.deletedSprites))
            /\ Range(emitted.outputs.deletedSprites) \subseteq {sp.id : sp \in OldListed}
            /\ Len(emitted.outputs.deletedSprites) >= Cardinality(OldListed) - actionWarnings
            /\ actionWarnings = 0 =>
                  Len(emitted.outputs.deletedSprites) = Cardinality(OldListed))

C37_Witness ==
    /\ DryRunEnded /\ ~Truthy(actionInputs.spriteName) /\ actionInputs.maxAgeDays = 1
    /\ emitted.outputs.deletedCount = "2" /\ DeleteRequests = {}
    /\ Requested("getSprite", <<"g", "h", "-", "o", "l", "d">>)
    /\ fleet = Fleet

C37_WitnessSpecific ==
    /\ DryRunEnded /\ actionInputs.spriteName = <<"g", "h", "-", "o", "l", "d">>
    /\ emitted.outputs.deletedCount = "1" /\ DeleteRequests = {}
    /\ SpriteNamed(actionInputs.spriteName) \in fleet

----------------------------------------------------------------------------
(* Claims about the division of a stream into chunks *)

ErrorsIn(lines) == {i \in DOMAIN lines : IsEvent(lines[i], "error")}
CreatedIn(lines) ==
    {i \in DOMAIN lines : IsEvent(lines[i], "complete") /\ CreatedMatches(lines[i].data)}
ExitsIn(lines) == {i \in DOMAIN lines : IsEvent(lines[i], "exit")}

\* the text the events of one type carry, raw lines counting as stdout
RECURSIVE OutputIn(_, _)
OutputIn(lines, type) ==
    IF lines = <<>> THEN <<>>
    ELSE LET line == Head(lines)
         IN (IF IsEvent(line, type) THEN line.data
             ELSE IF ~line.json /\ type = "stdout" THEN line.text
             ELSE <<>>) \o OutputIn(Tail(lines), type)

\* what a call whose stream carries these lines and then ends settles with
\* when every line is processed as the event it encodes
OutcomeOf(o, lines) ==
    CASE o = "createCheckpoint" ->
            IF ErrorsIn(lines) # {}
            THEN Failed(EventError(o, lines[Min(ErrorsIn(lines))]))
            ELSE IF CreatedIn(lines) # {}
            THEN Fulfilled([NoStreamValue EXCEPT
                              !.id = CreatedId(lines[Max(CreatedIn(lines))].data),
                              !.comment = TRUE])
            ELSE Failed(NoIdError(o))
      [] o = "restoreCheckpoint" ->
            IF ErrorsIn(lines) # {}
            THEN Failed(EventError(o, lines[Min(ErrorsIn(lines))]))
            ELSE Fulfilled(NoStreamValue)
      [] OTHER ->
            Fulfilled([NoStreamValue EXCEPT
                         !.exitCode = IF ExitsIn(lines) = {} THEN 0
                                      ELSE lines[Max(ExitsIn(lines))].code,
                         !.stdout = OutputIn(lines, "stdout"),
                         !.stderr = OutputIn(lines, "stderr")])

\* C38: when the stream of createCheckpoint, restoreCheckpoint or exec has
\* ended, the call has settled with the outcome that the sequence of lines
\* the server sent determines, however the transport divided the lines into
\* chunks: a line that arrived in two chunks counts as the event it encodes.
C38_OutcomeIndependentOfChunks ==
    spc = "ended" => promise = OutcomeOf(sop, sent)

\* the same outcome in terms of the pieces the 'data' handler processed
OutcomeFollowsPieces ==
    spc = "ended" => promise = OutcomeOf(sop, seen)

----------------------------------------------------------------------------
(* withApiRetry: src/src/common/withApiRetry.ts, lines 3-28 *)

\* the default values of the parameters retries and delayMs
DEFAULT_RETRIES == 2
DEFAULT_DELAY_MS == 1000

\* the largest number of invocations of fn followed
MaxInvocations == 5

RetryArgSets == [retries : {0, 1, DEFAULT_RETRIES}, delayMs : {DEFAULT_DELAY_MS, 250}]

\* how an invocation of fn settles: resolved, or rejected with an error that
\* has a response with a status, or no response
FnResolved == [ok |-> TRUE, hasResponse |-> FALSE, status |-> 0]
FnRejected(hasResponse, status) ==
    [ok |-> FALSE, hasResponse |-> hasResponse, status |-> status]
FnOutcomes ==
    {FnResolved, FnRejected(TRUE, 500), FnRejected(TRUE, 503), FnRejected(TRUE, 404),
     FnRejected(FALSE, 0)}

\* err.response && err.response.status && err.response.status >= 500
IsServerError(e) == e.hasResponse /\ e.status # 0 /\ e.status >= 500

SleepFixed(n, delayMs) == delayMs

\* setTimeout(resolve, attempt * delayMs)
SleepMs(n, delayMs) == n * delayMs

InitRetry ==
    /\ checkpoints = <<>>
    /\ state = [spriteId |-> "gh-sprite", jobKey |-> Empty, runId |-> Empty,
                lastCheckpointId |-> ""]
    /\ runs = 0
    /\ RunIdle
    /\ ClientIdle /\ sprite = TRUE
    /\ RaceIdle
    /\ StreamIdle
    /\ IdentityIdle
    /\ CheckpointIdle
    /\ ActionIdle /\ fleet = {}
    /\ RetryIdle

\* withApiRetry(fn, retries, delayMs) is called: let attempt = 0
RetryStart ==
    /\ retryPc = "idle"
    /\ retryArgs' \in RetryArgSets
    /\ retryPc' = "fn"
    /\ UNCHANGED <<retryAttempt, fnResults, retryWarnings, retrySleeps, retryOutcome>>
    /\ UNCHANGED exceptRetry

\* one turn of the loop: await fn(), and the catch block up to its await
CallFn ==
    /\ retryPc = "fn" /\ Len(fnResults) < MaxInvocations
    /\ \E r \in FnOutcomes :
        /\ fnResults' = Append(fnResults, r)
        /\ IF r.ok
           THEN /\ retryPc' = "returned"
                /\ retryOutcome' = [kind |-> "returned"]
                /\ UNCHANGED <<retryAttempt, retryWarnings, retrySleeps>>
           ELSE LET counted == IsServerError(r) /\ retryAttempt <= retryArgs.retries
                    next == IF counted THEN retryAttempt + 1 ELSE retryAttempt
                IN /\ retryAttempt' = next
                   /\ retryWarnings' = IF counted THEN retryWarnings + 1 ELSE retryWarnings
                   /\ IF next > retryArgs.retries
                      THEN /\ retryPc' = "thrown"
                           /\ retryOutcome' = [kind |-> "thrown", error |-> r]
                           /\ UNCHANGED retrySleeps
                      ELSE /\ retryPc' = "sleeping"
                           /\ retrySleeps' = Append(retrySleeps,
                                                    SleepMs(next, retryArgs.delayMs))
                           /\ UNCHANGED retryOutcome
    /\ UNCHANGED retryArgs
    /\ UNCHANGED exceptRetry

\* the timer fires: the loop starts over
TimerFires ==
    /\ retryPc = "sleeping"
    /\ retryPc' = "fn"
    /\ UNCHANGED <<retryArgs, retryAttempt, fnResults, retryWarnings, retrySleeps,
                   retryOutcome>>
    /\ UNCHANGED exceptRetry

NextRetry ==
    \/ RetryStart
    \/ CallFn
    \/ TimerFires

SpecRetry == InitRetry /\ [][NextRetry]_vars

----------------------------------------------------------------------------
(* Claims about withApiRetry *)

LastResult == fnResults[Len(fnResults)]
RejectedWithServerError(r) == ~r.ok /\ r.hasResponse /\ r.status >= 500
RejectedOtherwise(r) == ~r.ok /\ ~(r.hasResponse /\ r.status >= 500)

\* C39: once an invocation of fn has rejected with an error that is not a
\* server error, withApiRetry has thrown that error: it neither sleeps nor
\* invokes fn again.
C39_TerminalErrorRethrownAtOnce ==
    (fnResults # <<>> /\ RejectedOtherwise(LastResult)) =>
        /\ retryPc = "thrown"
        /\ retryOutcome = [kind |-> "thrown", error |-> LastResult]

\* a call in which fn rejected with 404 every time and that is still going on
C39_StillRetryingAfterTerminalErrors ==
    /\ retryArgs.retries = DEFAULT_RETRIES
    /\ Len(fnResults) = MaxInvocations
    /\ \A k \in DOMAIN fnResults : fnResults[k] = FnRejected(TRUE, 404)
    /\ retryPc = "sleeping" /\ retrySleeps = [k \in 1..MaxInvocations |-> 0]

AlwaysServerErrors ==
    /\ retryPc # "idle"
    /\ \A k \in DOMAIN fnResults : RejectedWithServerError(fnResults[k])

\* C40: while every invocation of fn has rejected with a server error,
\* withApiRetry has logged one warning per invocation and has slept
\* k x delayMs after the k-th of them; it makes at most retries+1
\* invocations, and after the last of them it has thrown that invocation's
\* error (it throws at no other time, and never returns).
C40_ServerErrorsRetriedThenRethrown ==
    AlwaysServerErrors =>
        LET n == Len(fnResults)
        IN /\ n <= retryArgs.retries + 1
           /\ retryWarnings = n
           /\ retryPc # "returned"
           /\ IF n = retryArgs.retries + 1
              THEN /\ retryPc = "thrown"
                   /\ retryOutcome = [kind |-> "thrown", error |-> LastResult]
                   /\ retrySleeps = [k \in 1..retryArgs.retries |-> k * retryArgs.delayMs]
              ELSE /\ retryPc \in {"fn", "sleeping"}
                   /\ retryPc = "sleeping" =>
                         retrySleeps = [k \in 1..n |-> k * retryArgs.delayMs]
                   /\ retryPc = "fn" => n = 0 \/
                         retrySleeps = [k \in 1..n |-> k * retryArgs.delayMs]

C40_Witness ==
    /\ AlwaysServerErrors /\ retryPc = "thrown"
    /\ retryArgs = [retries |-> 2, delayMs |-> 1000]
    /\ Len(fnResults) = 3 /\ retryWarnings = 3
    /\ retrySleeps = <<1000, 2000>>
    /\ retryOutcome = [kind |-> "thrown", error |-> FnRejected(TRUE, 503)]

====
